---- MODULE Spec2Model ----
(***************************************************************************)
(* A model of the cashflow-analysis pipeline: the Identity Assigner        *)
(* (clean_bank_statement.py / auto_classify_transactions.py), the rule     *)
(* classifier classify_row and the override loader/merger.                 *)
(*                                                                         *)
(* Conventions.                                                            *)
(*  - A text (Description, SourceFile, YearMonth, a Txn_ID, an override    *)
(*    cell) is a sequence of tokens: a token is a maximal run of word      *)
(*    characters, one punctuation character, or one whitespace character   *)
(*    WS.  Well-formed texts never hold two adjacent word tokens.          *)
(*  - A number is an integer count of milli-units (1/1000 of the currency  *)
(*    unit); NaN is the missing number.                                    *)
(*  - SHA-1 is taken to be collision free: a digest is identified with     *)
(*    the tuple of fields that was hashed.                                 *)
(***************************************************************************)
EXTENDS Integers, Sequences, FiniteSets, Bags, TLC

VARIABLES
    pc,       \* position of the run: "input", "done", "error", ...
    err,      \* the message of the exception that ended the run, or ""
    stage,    \* which entry point handles tbl: "clean" or "classify"
    tbl,      \* the table handed to the Identity Assigner
    out,      \* the table the Identity Assigner returned (<<>> on abort)
    perm,     \* TRUE once the table was re-ingested in another row order
    argDesc,  \* classify_row: the description argument
    argAmount,\* classify_row: the amount argument
    result,   \* classify_row: the ClassResult returned
    ledger,   \* classify_df: the classified table before the override merge
    xlsx,     \* the rows of the "Overrides" sheet
    ov,       \* the table load_overrides returned
    merged,   \* the table apply_overrides returned
    files,    \* the output directory: file name -> the table written to it
    csv_files,        \* clean_bank_statement.main: the statement files to clean
    all_cleaned,      \* clean_bank_statement.main: the cleaned tables so far
    per_file_reports, \* clean_bank_statement.main: the reconciliation rows so far
    env,      \* run_pipeline: the environment variables and the input files present
    started   \* run_pipeline: the stages started so far, each with its exit code

vars == <<pc, err, stage, tbl, out, perm, argDesc, argAmount, result, ledger, xlsx,
          ov, merged, files, csv_files, all_cleaned, per_file_reports, env, started>>

idVars == <<pc, err, stage, tbl, out, perm>>
classVars == <<argDesc, argAmount, result>>
ovVars == <<ledger, xlsx, ov, merged>>
mainVars == <<csv_files, all_cleaned, per_file_reports>>
plVars == <<env, started>>

\* an empty output directory, and no statement file
NoFiles == <<>>

\* run_pipeline is not running
NoPipeline == env = <<>> /\ started = <<>>

---------------------------------------------------------------------------
(* Bounds *)

MaxRows == 3

---------------------------------------------------------------------------
(* Text helpers *)

WS == " "

NaN == -999999999

Range(s) == {s[i] : i \in DOMAIN s}

\* str.upper() on one token
Upper(t) ==
    CASE t = "misc" -> "MISC"
      [] t = "fee" -> "FEE"
      [] t = "f1.csv" -> "F1.CSV"
      [] t = "f2.csv" -> "F2.CSV"
      [] t = "Cheque" -> "CHEQUE"
      [] t = "Charges" -> "CHARGES"
      [] t = "salary" -> "SALARY"
      [] t = "payment" -> "PAYMENT"
      [] t = "mBK" -> "MBK"
      [] t = "True" -> "TRUE"
      [] t = "yes" -> "YES"
      [] t = "blank" -> "BLANK"
      [] t = "transfer" -> "TRANSFER"
      [] t = "housing" -> "HOUSING"
      [] t = "Jan" -> "JAN"
      [] t = "Feb" -> "FEB"
      [] t = "Jan24" -> "JAN24"
      [] t = "csv" -> "CSV"
      [] t = "abc" -> "ABC"
      [] t = "Date" -> "DATE"
      [] t = "Description" -> "DESCRIPTION"
      [] t = "Withdrawals" -> "WITHDRAWALS"
      [] t = "Deposits" -> "DEPOSITS"
      [] t = "Balance" -> "BALANCE"
      [] OTHER -> t

UpperText(s) == [i \in DOMAIN s |-> Upper(s[i])]

RECURSIVE lstrip(_)
lstrip(s) == IF s # <<>> /\ Head(s) = WS THEN lstrip(Tail(s)) ELSE s

RECURSIVE rstrip(_)
rstrip(s) ==
    IF s # <<>> /\ s[Len(s)] = WS THEN rstrip(SubSeq(s, 1, Len(s) - 1)) ELSE s

\* str.strip()
strip(s) == rstrip(lstrip(s))

RECURSIVE Squeeze(_)
Squeeze(s) ==
    IF Len(s) < 2 THEN s
    ELSE IF s[1] = WS /\ s[2] = WS THEN Squeeze(Tail(s))
    ELSE <<s[1]>> \o Squeeze(Tail(s))

\* " ".join(s.split())
_collapse_ws(s) == Squeeze(strip(s))

\* _canon_text (_canon_desc in clean_bank_statement.py): whitespace-collapsed, upper-cased
_canon_text(s) == UpperText(_collapse_ws(s))

\* _canon_yearmonth
_canon_yearmonth(ym) == _collapse_ws(ym)

\* The dates of the model.  NaT is the missing date (NaN / NaT / "").
NaT == "NaT"

\* pd.to_datetime(s, errors="coerce", dayfirst=True).strftime("%Y-%m-%d"),
\* or NaT when s does not parse
to_datetime(s) ==
    CASE s = "2024-01-02" -> "2024-01-02"
      [] s = "02/01/2024" -> "2024-01-02"
      [] s = "2024-01-03" -> "2024-01-03"
      [] s = "2024-02-03" -> "2024-02-03"
      [] OTHER -> NaT

\* _canon_date
_canon_date(d) ==
    IF d = NaT THEN ""
    ELSE IF to_datetime(d) = NaT THEN d
    ELSE to_datetime(d)

\* round(): half to even, of m/10
RoundHalfEven10(m) ==
    LET q == m \div 10
        r == m % 10
    IN  IF r < 5 THEN q
        ELSE IF r > 5 THEN q + 1
        ELSE IF q % 2 = 0 THEN q ELSE q + 1

\* _canon_amount_cents on a number that is present: str(int(round(v * 100)))
_canon_amount_cents(a) == RoundHalfEven10(a)

\* the fingerprint's cents-or-"NaN" field
cents_or_nan(a) == IF a = NaN THEN NaN ELSE _canon_amount_cents(a)

---------------------------------------------------------------------------
(* Identity Assigner *)

\* the text "" and the text of one blank
Empty == <<>>

Row(date, amount, desc, src, bal, wd, dep, id) ==
    [Date |-> date, YearMonth |-> <<"2024-01">>, Amount |-> amount,
     Description |-> desc, SourceFile |-> src, Balance |-> bal,
     Withdrawals |-> wd, Deposits |-> dep, Txn_ID |-> id]

\* date.replace("", "NA")
DateOrNA(d) == IF _canon_date(d) = "" THEN "NA" ELSE _canon_date(d)

\* base_key = Date | YearMonth | Amount_cents | Description | SourceFile
base_key(row) ==
    <<DateOrNA(row.Date), _canon_yearmonth(row.YearMonth),
      _canon_amount_cents(row.Amount), _canon_text(row.Description),
      _canon_text(row.SourceFile)>>

\* sha1 of the base-key fields plus balance, withdrawals, deposits in cents
_mk_row_fingerprint(row) ==
    <<"fp", DateOrNA(row.Date), _canon_yearmonth(row.YearMonth),
      _canon_amount_cents(row.Amount), _canon_text(row.Description),
      _canon_text(row.SourceFile), cents_or_nan(row.Balance),
      cents_or_nan(row.Withdrawals), cents_or_nan(row.Deposits)>>

\* A Txn_ID cell: the text in it and, when the text is a SHA-1 digest, the
\* key that was hashed (<<>> otherwise).
Text(t) == [text |-> t, key |-> <<>>]
Digest(key) == [text |-> <<"sha1">>, key |-> key]

\* sha1 of base_key | OCCnnn
_mk_txn_id(row, occurrence_index) ==
    Digest(<<DateOrNA(row.Date), _canon_yearmonth(row.YearMonth),
             _canon_amount_cents(row.Amount), _canon_text(row.Description),
             _canon_text(row.SourceFile), occurrence_index>>)

\* the conditions under which _mk_txn_id raises ValueError
MkTxnIdRaises(row) ==
    \/ _canon_yearmonth(row.YearMonth) = Empty
    \/ row.Amount = NaN
    \/ _canon_text(row.SourceFile) = Empty

\* Hex digests compare as strings: a fixed total order that has nothing to do
\* with the hashed content.  CHOOSE fixes one such order.
Sha1Less(a, b) == a # b /\ (CHOOSE x \in {a, b} : TRUE) = a

\* one sort column, ascending, na_position="last"
NumLess(x, y) == x # NaN /\ (y = NaN \/ x < y)

\* the legacy scheme: no content tie-breaker, the position in the file decides
TieBreakLessRowOrder(a, b) == FALSE

\* by=[Balance, Withdrawals, Deposits, Amount, _row_fingerprint] within one
\* base-key group
TieBreakLess(a, b) ==
    \/ NumLess(a.Balance, b.Balance)
    \/ /\ a.Balance = b.Balance
       /\ \/ NumLess(a.Withdrawals, b.Withdrawals)
          \/ /\ a.Withdrawals = b.Withdrawals
             /\ \/ NumLess(a.Deposits, b.Deposits)
                \/ /\ a.Deposits = b.Deposits
                   /\ \/ NumLess(a.Amount, b.Amount)
                      \/ /\ a.Amount = b.Amount
                         /\ Sha1Less(_mk_row_fingerprint(a),
                                     _mk_row_fingerprint(b))

\* row j is sorted before row i by the stable mergesort
SortsBefore(df, j, i) ==
    \/ TieBreakLess(df[j], df[i])
    \/ (~TieBreakLess(df[i], df[j]) /\ j < i)

\* the hard stop left out
TrueDupsNever(df) == FALSE

\* groupby(["_base_key", "_row_fingerprint"]).size() > 1 somewhere
TrueDups(df) ==
    \E i, j \in DOMAIN df :
        /\ i < j
        /\ base_key(df[i]) = base_key(df[j])
        /\ _mk_row_fingerprint(df[i]) = _mk_row_fingerprint(df[j])

\* cumcount() without the + 1
occurrence_indices_zero_based(df) ==
    [i \in DOMAIN df |->
        Cardinality({j \in DOMAIN df :
                        /\ base_key(df[j]) = base_key(df[i])
                        /\ SortsBefore(df, j, i)})]

\* cumcount() over the sorted table as a whole, not within its base-key group
occurrence_indices_ungrouped(df) ==
    [i \in DOMAIN df |->
        1 + Cardinality({j \in DOMAIN df :
                            \/ Sha1Less(base_key(df[j]), base_key(df[i]))
                            \/ /\ base_key(df[j]) = base_key(df[i])
                               /\ SortsBefore(df, j, i)})]

\* the occurrence indices of a table that passed the hard stop: cumcount() + 1
\* in the sorted order, restored to the original index order
_generate_occurrence_indices(df) ==
    [i \in DOMAIN df |->
        1 + Cardinality({j \in DOMAIN df :
                            /\ base_key(df[j]) = base_key(df[i])
                            /\ SortsBefore(df, j, i)})]

\* isna() | astype(str).str.strip().eq("")
IsBlankId(id) == strip(id.text) = Empty

Ok(df) == [ok |-> TRUE, err |-> "", df |-> df]
Raise(msg) == [ok |-> FALSE, err |-> msg, df |-> <<>>]

IdsOf(df) == {df[i].Txn_ID : i \in DOMAIN df}

\* nunique() # len(df) with the check left out
UniquenessViolationNever(df) == FALSE

\* txn_id_unique != txn_id_count
UniquenessViolation(df) == Cardinality(IdsOf(df)) # Len(df)

\* the three "HARDENING" assertions that end ensure_txn_id
PostAssignment(df) ==
    IF \E i \in DOMAIN df : IsBlankId(df[i].Txn_ID)
    THEN Raise("FATAL: Blank Txn_IDs detected")
    ELSE IF UniquenessViolation(df)
    THEN Raise("FATAL: Txn_ID uniqueness violation")
    ELSE Ok(df)

\* ensure_txn_id giving every row a generated identifier, the rows that came
\* with one included
ensure_txn_id_for_every_row(frame) ==
    LET occ == _generate_occurrence_indices(frame)
    IN  IF TrueDups(frame)
        THEN Raise("FATAL: Indistinguishable duplicate transactions detected")
        ELSE PostAssignment(
                [i \in DOMAIN frame |->
                    [frame[i] EXCEPT !.Txn_ID = _mk_txn_id(frame[i], occ[i])]])

ensure_txn_id(frame) ==
    LET \* if "Txn_ID" not in df.columns: df["Txn_ID"] = ""
        df == [i \in DOMAIN frame |->
                 IF "Txn_ID" \in DOMAIN frame[i] THEN frame[i]
                 ELSE [f \in DOMAIN frame[i] \cup {"Txn_ID"} |->
                         IF f = "Txn_ID" THEN Text(Empty) ELSE frame[i][f]]]
        missing == {i \in DOMAIN df : IsBlankId(df[i].Txn_ID)}
        occ == _generate_occurrence_indices(df)
    IN  IF missing = {} THEN PostAssignment(df)
        ELSE IF \E i \in DOMAIN df : df[i].Amount = NaN
        THEN Raise("ValueError: cannot convert float NaN to integer")
        ELSE IF TrueDups(df)
        THEN Raise("FATAL: Indistinguishable duplicate transactions detected")
        ELSE IF \E i \in missing : MkTxnIdRaises(df[i])
        THEN Raise("ValueError: Missing field for Txn_ID")
        ELSE PostAssignment(
                [i \in DOMAIN df |->
                    IF i \in missing
                    THEN [df[i] EXCEPT !.Txn_ID = _mk_txn_id(df[i], occ[i])]
                    ELSE df[i]])

\* clean_statement_csv from "Generate occurrence indices" on: every row gets
\* an identifier
AssignTxnIds(df) ==
    LET occ == _generate_occurrence_indices(df)
    IN  IF \E i \in DOMAIN df : df[i].Amount = NaN
        THEN Raise("ValueError: cannot convert float NaN to integer")
        ELSE IF TrueDups(df)
        THEN Raise("FATAL: Indistinguishable duplicate transactions detected")
        ELSE IF \E i \in DOMAIN df : MkTxnIdRaises(df[i])
        THEN Raise("ValueError: Missing field for Txn_ID")
        ELSE PostAssignment(
                [i \in DOMAIN df |->
                    [df[i] EXCEPT !.Txn_ID = _mk_txn_id(df[i], occ[i])]])

---------------------------------------------------------------------------
(* The Identity Assigner as a state machine: a table is ingested, and may be
   ingested again with two neighbouring rows exchanged. *)

D1 == "2024-01-02"
D1dmy == "02/01/2024"
MISC == <<"MISC">>
F1 == <<"f1.csv">>
F2 == <<"f2.csv">>

NoId == Text(Empty)

BaseRow == Row(D1, -50000, MISC, F1, 100000, 50000, NaN, NoId)

\* Rows as the normalizer produces them: no Txn_ID yet.
CleanRows ==
    { BaseRow,
      \* same base key, other balance / no balance
      Row(D1, -50000, MISC, F1, 200000, 50000, NaN, NoId),
      Row(D1, -50000, MISC, F1, NaN, 50000, NaN, NoId),
      \* BaseRow again up to formatting noise (date format, sub-cent digits,
      \* letter case)
      Row(D1dmy, -50004, <<"misc">>, F1, 100000, 50000, NaN, NoId),
      \* other base keys
      Row(NaT, -50000, MISC, F1, 100000, 50000, NaN, NoId),
      Row(D1, 120000, <<"MISC", WS, WS, "FEE">>, F2, 300000, NaN, 120000, NoId) }

\* Rows of a classifier input ledger: some carry a Txn_ID already.
LedgerRows ==
    CleanRows \cup
    { Row(D1, -50000, MISC, F1, 100000, 50000, NaN, Text(<<"PRE1">>)),
      Row(D1, -50000, MISC, F1, 200000, 50000, NaN, Text(<<"PRE2">>)),
      Row(D1, -50000, MISC, F1, 100000, 50000, NaN, Text(<<"PRE2">>)),
      Row(D1, -50000, MISC, F1, 100000, 50000, NaN, Text(<<WS>>)),
      \* carries the digest BaseRow gets as first of its group
      Row(D1, 120000, <<"MISC", WS, "FEE">>, F2, 300000, NaN, 120000,
          _mk_txn_id(BaseRow, 1)) }

Tables(rows) == UNION {[1..n -> rows] : n \in 0..MaxRows}

Swap(df, i) ==
    [k \in DOMAIN df |-> IF k = i THEN df[i + 1]
                         ELSE IF k = i + 1 THEN df[i] ELSE df[k]]

RunAssigner(st, df) == IF st = "clean" THEN AssignTxnIds(df) ELSE ensure_txn_id(df)

InitId ==
    /\ pc = "input" /\ err = "" /\ out = <<>> /\ perm = FALSE
    /\ \/ stage = "clean" /\ tbl \in Tables(CleanRows)
       \/ stage = "classify" /\ tbl \in Tables(LedgerRows)
    /\ argDesc = <<>> /\ argAmount = 0 /\ result = <<>>
    /\ ledger = <<>> /\ xlsx = <<>> /\ ov = <<>> /\ merged = <<>>
    /\ files = NoFiles /\ csv_files = <<>> /\ all_cleaned = <<>> /\ per_file_reports = <<>>
    /\ NoPipeline

Finish(r) ==
    /\ pc' = IF r.ok THEN "done" ELSE "error"
    /\ err' = r.err
    /\ out' = r.df

CleanStatementCsv ==
    /\ pc = "input" /\ stage = "clean"
    /\ Finish(AssignTxnIds(tbl))
    /\ UNCHANGED <<stage, tbl, perm, classVars, ovVars, files, mainVars, plVars>>

EnsureTxnId ==
    /\ pc = "input" /\ stage = "classify"
    /\ Finish(ensure_txn_id(tbl))
    /\ UNCHANGED <<stage, tbl, perm, classVars, ovVars, files, mainVars, plVars>>

Reingest ==
    /\ pc \in {"done", "error"}
    /\ \E i \in 1..(Len(tbl) - 1) :
          /\ tbl' = Swap(tbl, i)
          /\ Finish(RunAssigner(stage, Swap(tbl, i)))
    /\ perm' = TRUE
    /\ UNCHANGED <<stage, classVars, ovVars, files, mainVars, plVars>>

NextId == CleanStatementCsv \/ EnsureTxnId \/ Reingest

SpecId == InitId /\ [][NextId]_vars

---------------------------------------------------------------------------
(* Properties of the Identity Assigner *)

BagOfRows(df) ==
    [r \in Range(df) |-> Cardinality({i \in DOMAIN df : df[i] = r})]

\* C1: order independence.  Ingesting a table that passed the duplicate hard
\* stop again, with its rows in another order, succeeds again and gives the
\* same multiset of (row content, Txn_ID) pairs.
C1_OrderIndependence ==
    [][pc = "done" => (pc' = "done" /\ BagOfRows(out') = BagOfRows(out))]_vars

\* C1 witness: after a re-ingestion, two rows of one base-key group got
\* generated identifiers and the one that stands later in the table holds the
\* smaller occurrence index.
C1_Witness ==
    /\ pc = "done" /\ perm
    /\ \E i, j \in DOMAIN out :
          /\ i < j
          /\ IsBlankId(tbl[i].Txn_ID) /\ IsBlankId(tbl[j].Txn_ID)
          /\ base_key(tbl[i]) = base_key(tbl[j])
          /\ out[i].Txn_ID.key[6] > out[j].Txn_ID.key[6]

\* C2: bijection.  When clean_statement_csv or ensure_txn_id returns, every
\* row of the input is in the result, carries a non-blank Txn_ID, and no two
\* rows share one.
C2_Bijection ==
    pc = "done" =>
        /\ Len(out) = Len(tbl)
        /\ \A i \in DOMAIN out : ~IsBlankId(out[i].Txn_ID)
        /\ \A i, j \in DOMAIN out : i # j => out[i].Txn_ID # out[j].Txn_ID

\* C2 witness: ensure_txn_id returned a table in which one row kept the
\* Txn_ID it came with and another got a generated one.
C2_Witness ==
    /\ pc = "done" /\ stage = "classify"
    /\ \E i, j \in DOMAIN out :
          /\ ~IsBlankId(tbl[i].Txn_ID)
          /\ IsBlankId(tbl[j].Txn_ID)
          /\ out[j].Txn_ID.key # <<>>

\* C3: duplicate hard stop.  A table holding two rows with the same base key
\* and the same fingerprint makes the run abort.
C3_DuplicateHardStop ==
    (pc # "input" /\ TrueDups(tbl)) => pc = "error"

---------------------------------------------------------------------------
(* Pattern matching on token sequences.

   A compiled pattern is a sequence of items: a literal token, or
     "<ws+>"  \s+          "<ws*>"  \s*         "<any*>"  .*
     "<w+>"   \w+ up to the end of the word token
     "<d+>"   \d+\b        "<d6>"   \d{6} (a whole token)   "<d3>"  \d{3}\b
     "<!d>"   (?!\s*\d)
   A literal word token stands for the word between two word boundaries; an
   alternation or an optional part of a source pattern is written out as
   several patterns. *)

\* the digits of an all-digit token, 0 for any other token
Digits(t) ==
    CASE t = "5" -> 1
      [] t = "001" -> 3
      [] t = "12345" -> 5
      [] t = "123456" -> 6
      [] t = "79608204" -> 8
      [] t = "3493939244" -> 10
      [] OTHER -> 0

\* <<w, x>>: the word token w contains the text x (besides w itself)
ProperSubstrings ==
    { <<"HPL", "HP">>, <<"SAMSUNG", "SAM">>, <<"SAMANTHA", "SAM">>,
      <<"WESTCOASTTOWNCOUNCIL", "TOWNCOUNCIL">>, <<"CARDS", "CARD">>,
      <<"ACCOUNT", "CC">>, <<"GOVT", "GOV">> }

\* <<w, x>>: the word token w starts with the text x (besides w itself)
ProperPrefixes ==
    { <<"SAMSUNG", "SAM">>, <<"SAMANTHA", "SAM">>,
      <<"CARDS", "CARD">>, <<"GOVT", "GOV">>,
      <<"CREDIT_CARD_SETTLEMENT_CITI", "CREDIT_CARD_SETTLEMENT">>,
      <<"CREDIT_CARD_SETTLEMENT_SCB", "CREDIT_CARD_SETTLEMENT">>,
      <<"CREDIT_CARD_SETTLEMENT_HSBC", "CREDIT_CARD_SETTLEMENT">>,
      <<"CREDIT_CARD_SETTLEMENT_UOB", "CREDIT_CARD_SETTLEMENT">>,
      <<"CREDIT_CARD_SETTLEMENT_OCBC", "CREDIT_CARD_SETTLEMENT">>,
      <<"CREDIT_CARD_SETTLEMENT_AMEX", "CREDIT_CARD_SETTLEMENT">>,
      <<"CREDIT_CARD_SETTLEMENT_DBS", "CREDIT_CARD_SETTLEMENT">> }

\* <<w, x>>: the word token w ends with the text x (besides w itself)
ProperSuffixes == { <<"WESTCOASTTOWNCOUNCIL", "TOWNCOUNCIL">> }

Contains(t, x) == t = x \/ <<t, x>> \in ProperSubstrings
StartsWith(t, x) == t = x \/ <<t, x>> \in ProperPrefixes
EndsWith(t, x) == t = x \/ <<t, x>> \in ProperSuffixes

StartsWithDigit(t) == Digits(t) > 0

RECURSIVE MatchAt(_, _, _, _)
MatchAt(pat, p, d, i) ==
    IF p > Len(pat) THEN TRUE
    ELSE LET item == pat[p]
             more == i <= Len(d)
         IN  CASE item = "<ws+>" ->
                    more /\ d[i] = WS
                         /\ (MatchAt(pat, p, d, i + 1) \/ MatchAt(pat, p + 1, d, i + 1))
               [] item = "<ws*>" ->
                    \/ MatchAt(pat, p + 1, d, i)
                    \/ (more /\ d[i] = WS /\ MatchAt(pat, p, d, i + 1))
               [] item = "<any*>" ->
                    \/ MatchAt(pat, p + 1, d, i)
                    \/ (more /\ MatchAt(pat, p, d, i + 1))
               [] item = "<w+>" ->
                    more /\ d[i] \notin {WS, "-", "/", ".", "(", ")", "&"}
                         /\ MatchAt(pat, p + 1, d, i + 1)
               [] item = "<d+>" ->
                    more /\ Digits(d[i]) > 0 /\ MatchAt(pat, p + 1, d, i + 1)
               [] item = "<d6>" ->
                    more /\ Digits(d[i]) = 6 /\ MatchAt(pat, p + 1, d, i + 1)
               [] item = "<d3>" ->
                    more /\ Digits(d[i]) = 3 /\ MatchAt(pat, p + 1, d, i + 1)
               [] item = "<!d>" ->
                    /\ ~(\E k \in i..Len(d) :
                            /\ StartsWithDigit(d[k])
                            /\ \A m \in i..(k - 1) : d[m] = WS)
                    /\ MatchAt(pat, p + 1, d, i)
               [] OTHER ->
                    more /\ d[i] = item /\ MatchAt(pat, p + 1, d, i + 1)

\* re.search
search(pat, d) == \E i \in 1..(Len(d) + 1) : MatchAt(pat, 1, d, i)

\* has_any(text, patterns)
has_any(d, patterns) == \E pat \in patterns : search(pat, d)

\* `needle in d` for a needle of word tokens separated by single blanks
SubstringAt(needle, d, i) ==
    LET n == Len(needle)
    IN  /\ i + n - 1 <= Len(d)
        /\ IF n = 1 THEN Contains(d[i], needle[1])
           ELSE /\ EndsWith(d[i], needle[1])
                /\ StartsWith(d[i + n - 1], needle[n])
                /\ \A k \in 2..(n - 1) : d[i + k - 1] = needle[k]

IsIn(needle, d) == \E i \in 1..Len(d) : SubstringAt(needle, d, i)

\* contains_any_token(desc_u, tokens)
contains_any_token(d, tokens) == \E k \in DOMAIN tokens : IsIn(tokens[k], d)

\* norm(x): upper-cased and stripped
norm(x) == strip(UpperText(x))

---------------------------------------------------------------------------
(* Configuration lists and semantic patterns of the classifier. *)

SALARY_EMPLOYERS ==
    << <<"HP">>, <<"MICROSOFT">>, <<"ABBOTT">>,
       <<"CHANGI", WS, "AIRPORT", WS, "GROUP">>, <<"KERING">> >>

INSURERS ==
    << <<"AIA">>, <<"PRUDENTIAL">>, <<"GREAT", WS, "EASTERN">>, <<"NTUC">>,
       <<"MANULIFE">>, <<"AVIVA">>, <<"AXA">>, <<"HSBC", WS, "LIFE">> >>

SELF_ENTITIES ==
    << <<"WEILUN">>, <<"SAM">>, <<"SAMANTHA">>, <<"SAMANTHA", WS, "SEAH">>,
       <<"TRUST", WS, "BANK">>, <<"3493939244">>, <<"3491284038">> >>

CC_ISSUERS == <<"CITI", "SCB", "HSBC", "UOB", "OCBC", "AMEX">>

CC_ISSUER_PATTERNS ==
    [ CITI |-> { <<"CITI">> },
      SCB  |-> { <<"SCB">>, <<"STANDARD", "<ws+>", "CHARTERED">> },
      HSBC |-> { <<"HSBC">> },
      UOB  |-> { <<"UOB">> },
      OCBC |-> { <<"OCBC">> },
      AMEX |-> { <<"AMEX">>, <<"AMERICAN", "<ws+>", "EXPRESS">> } ]

RAIL_ORDER == <<"GIRO", "FAST", "PAYNOW", "NETS", "ATM", "CHEQUE", "CARD">>

RAILS ==
    [ GIRO   |-> { <<"GIRO">> },
      FAST   |-> { <<"FAST">> },
      PAYNOW |-> { <<"PAYNOW">> },
      NETS   |-> { <<"NETS">> },
      ATM    |-> { <<"ATM">>, <<"CASH", "<ws+>", "WITHDRAWAL">> },
      CHEQUE |-> { <<"CHEQUE">> },
      CARD   |-> { <<"BILL", "<ws+>", "PAYMENT">>,
                   <<"MBK", "-", "<w+>", "<ws+>", "CC">>,
                   <<"UOB", "<ws+>", "CARDS">>,
                   <<"CARD">>, <<"CARDS">> } ]

BALANCE_PATTERNS == { <<"BALANCE", "<ws+>", "B", "/", "F">> }

INTEREST_PATTERNS ==
    { <<"INTEREST", "<ws+>", "CREDIT">>, <<"BONUS", "<ws+>", "INTEREST">> }

SALARY_PATTERNS ==
    { <<"SALARY", "<ws+>", "PAYMENT">>, <<"GIRO", "<ws+>", "SALA">> }

TAX_PATTERNS ==
    { <<"IRAS">>, <<"INCOME", "<ws+>", "TAX">>, <<"PROPERTY", "<ws+>", "TAX">>,
      <<"ITX">>, <<"PTXP">> }

MORTGAGE_PATTERNS ==
    { <<"TRF", ".", "<ws*>", "WD", ".", "<ws*>", "LOANS">>,
      <<"WD", ".", "<ws*>", "LOANS">>,
      <<"MORTGAGE">>,
      <<"HOUSING", "<ws+>", "LOAN">> }

MCST_PATTERNS == { <<"MCST">>, <<"MANAGEMENT", "<ws+>", "CORP">> }

PROPERTY_DOWNPAYMENT_PATTERNS ==
    { <<"CHEQUE", "<ws+>", "WITHDRAWAL">>,
      <<"DR", "<ws+>", "CO", "<ws+>", "CHARGES">>,
      <<"CO", "-", "<d6>", "-", "<d3>">> }

RENOVATION_PATTERNS ==
    { <<"BUILD", "<ws+>", "BUILT">>, <<"RENOV">>, <<"CONTRACTOR">>,
      <<"CARPENTRY">> }

CAR_FINANCE_PATTERNS ==
    { <<"HONG", "<ws+>", "LEONG", "<ws+>", "FINANCE">>, <<"HLF", "-", "<d+>">> }

TRANSFER_PATTERNS ==
    { <<"FUNDS", "<ws+>", "TRF">>, <<"TRANSFER">>,
      <<"OTHR", "<ws+>", "TRANSFER">> }

TRUST_BANK_INTERNAL_PATTERNS ==
    { <<"TRUST", "<ws+>", "BANK", "<any*>", "OTHR", "<ws+>", "TRANSFER">>,
      <<"OTHR", "<ws+>", "TRANSFER", "<any*>", "TRUST", "<ws+>", "BANK">> }

INS_INFLOW_MARKERS ==
    { <<"INWARD", "<ws+>", "CR">>, <<"CR", "<ws*>", "-", "<ws*>", "GIRO">> }

INS_OUTFLOW_MARKERS ==
    { <<"INWARD", "<ws+>", "DR">>, <<"DR", "<ws*>", "-", "<ws*>", "GIRO">> }

SRS_PATTERNS ==
    { <<"SRS", "<ws+>", "CONT">>, <<"(", "SRS", ")">>,
      <<"SRS", "<ws+>", "CONTRIBUTION">> }

CPF_PATTERNS ==
    { <<"CENTRAL", "<ws+>", "PROVIDENT", "<ws+>", "FU">>,
      <<"CPF", "<ws+>", "TOP", "-", "UP">>,
      <<"CPF", "<ws+>", "TOP", WS, "UP">>,
      <<"CPF", "<ws+>", "TOPUP">>,
      <<"CPF", "<ws+>", "CONTRIBUTION">> }

\* the pattern TOWNCOUNCIL has no word boundary: see TownCouncilInWord
TOWN_COUNCIL_PATTERNS ==
    { <<"TOWN", "<ws+>", "COUNCIL">>, <<"TC", "<ws+>", "S", "&", "CC">> }

TownCouncilInWord(d) == \E i \in DOMAIN d : Contains(d[i], "TOWNCOUNCIL")

GOVT_PAYOUT_PATTERNS ==
    { <<"GOV", "<ws+>", "PAYOUT">>, <<"GOVT", "<ws+>", "PAYOUT">>,
      <<"GOV", "<ws+>", "GOV">>, <<"GST", "<ws+>", "VOUCHER">>,
      <<"CDC", "<ws+>", "VOUCHER">> }

ATM_WITHDRAWAL_PATTERNS ==
    { <<"CASH", "<ws+>", "WITHDRAWAL">>, <<"ATM", "<ws+>", "WITHDRAWAL">>,
      <<"CASH", "<ws+>", "WITHDRAWAL", "-", "ATM">>,
      <<"CASH", "<ws+>", "WITHDRAWAL", "-", "SATM">> }

TELECOM_PATTERNS ==
    { <<"SINGTEL">>, <<"STARHUB">>, <<"M1", "<ws+>", "LIMITED">>,
      <<"M1", "<!d>">>, <<"SIMBA", "<ws+>", "TELECOM">>,
      <<"TPG", "<ws+>", "TELECOM">> }

TRANSIT_PATTERNS ==
    { <<"TRANSIT">>, <<"SMRT">>, <<"SBS", "<ws+>", "TRANSIT">>,
      <<"EZ", "-", "LINK">>, <<"EZLINK">>,
      <<"CONSUMER", "<ws+>", "TRANSIT">> }

BANK_FEE_PATTERNS ==
    { <<"CHEQUE", "<ws+>", "CHARGES">>, <<"BANK", "<ws+>", "FEE">>,
      <<"SERVICE", "<ws+>", "CHARGE">>, <<"MONTHLY", "<ws+>", "FEE">> }

\* infer_bank_rail(desc_u): the first rail, in the dict's order, whose pattern matches
RECURSIVE FirstRail(_, _)
FirstRail(d, k) ==
    IF k > Len(RAIL_ORDER) THEN "OTHER"
    ELSE IF has_any(d, RAILS[RAIL_ORDER[k]]) THEN RAIL_ORDER[k]
    ELSE FirstRail(d, k + 1)

infer_bank_rail(d) == FirstRail(d, 1)

\* detect_cc_issuer(desc_u): the first issuer, in the dict's order, or "" for None
RECURSIVE FirstIssuer(_, _)
FirstIssuer(d, k) ==
    IF k > Len(CC_ISSUERS) THEN ""
    ELSE IF has_any(d, CC_ISSUER_PATTERNS[CC_ISSUERS[k]]) THEN CC_ISSUERS[k]
    ELSE FirstIssuer(d, k + 1)

detect_cc_issuer(d) == FirstIssuer(d, 1)

---------------------------------------------------------------------------
(* The classifier: classify_row, single pass, priority ordered. *)

FLOW_NATURE ==
    [ INCOME |-> "INCOME", EXPENSE |-> "EXPENSE", TRANSFER |-> "TRANSFER",
      NON_CASH |-> "NON-CASH" ]

CFS ==
    [ OPERATING |-> "OPERATING", INVESTING |-> "INVESTING",
      FINANCING |-> "FINANCING", TRANSFER |-> "TRANSFER",
      NON_CASH |-> "NON-CASH" ]

EP_L1 ==
    [ INCOME |-> "INCOME", LIFESTYLE |-> "LIFESTYLE", HOUSING |-> "HOUSING",
      TAXES |-> "TAXES", INSURANCE |-> "INSURANCE",
      DEBT_SERVICE |-> "DEBT_SERVICE",
      SAVINGS_INVESTING |-> "SAVINGS_INVESTING", FEES |-> "FEES",
      TRANSFER |-> "TRANSFER", NON_CASH |-> "NON-CASH", UNKNOWN |-> "UNKNOWN" ]

ASSET_CTX ==
    [ GENERAL |-> "GENERAL", PROPERTY |-> "PROPERTY", CAR |-> "CAR",
      FINANCIAL |-> "FINANCIAL", UNKNOWN |-> "UNKNOWN" ]

STABILITY ==
    ("STRUCTURAL" :> "STRUCTURAL_RECURRING") @@ ("SEMI" :> "SEMI_RECURRING") @@
    ("VARIABLE" :> "VARIABLE") @@ ("ONE_OFF" :> "ONE_OFF")

EVENT_TAG ==
    [ NONE |-> "NONE", RENOVATION |-> "RENOVATION",
      PROPERTY_ACQ |-> "PROPERTY_ACQ", TAX_EVENT |-> "TAX_EVENT" ]


\* has_any(d, P_TOWN_COUNCIL)
has_any_town_council(d) == TownCouncilInWord(d) \/ has_any(d, TOWN_COUNCIL_PATTERNS)

SALARY_EMPLOYER_NAMES ==
    <<"HP", "MICROSOFT", "ABBOTT", "CHANGI AIRPORT GROUP", "KERING">>

\* next((e for e in SALARY_EMPLOYERS if e.upper() in d), "EMPLOYER")
RECURSIVE FirstEmployer(_, _)
FirstEmployer(d, k) ==
    IF k > Len(SALARY_EMPLOYERS) THEN "EMPLOYER"
    ELSE IF IsIn(SALARY_EMPLOYERS[k], d) THEN SALARY_EMPLOYER_NAMES[k]
    ELSE FirstEmployer(d, k + 1)

\* The ClassResult each rule returns.

R00_BALANCE_BF(rail) ==
    [ record_type |-> "SUMMARY",
      flow_nature |-> FLOW_NATURE["NON_CASH"],
      cashflow_statement |-> CFS["NON_CASH"],
      econ_l1 |-> EP_L1["NON_CASH"],
      econ_l2 |-> "BALANCE_BF",
      asset_context |-> ASSET_CTX["UNKNOWN"],
      stability_class |-> STABILITY["ONE_OFF"],
      baseline_eligible |-> FALSE,
      event_tag |-> EVENT_TAG["NONE"],
      bank_rail |-> rail,
      rule_id |-> "R00_BALANCE_BF",
      rule_explanation |-> "Balance B/F is a non-cash summary line; excluded from cashflow analytics.",
      managerial_l1 |-> "NON-CASH",
      managerial_l2 |-> "BALANCE_BF",
      is_cc_settlement |-> FALSE ]

R01_SALARY(rail, employer) ==
    [ record_type |-> "TRANSACTION",
      flow_nature |-> FLOW_NATURE["INCOME"],
      cashflow_statement |-> CFS["OPERATING"],
      econ_l1 |-> EP_L1["INCOME"],
      econ_l2 |-> "SALARY",
      asset_context |-> ASSET_CTX["GENERAL"],
      stability_class |-> STABILITY["STRUCTURAL"],
      baseline_eligible |-> TRUE,
      event_tag |-> EVENT_TAG["NONE"],
      bank_rail |-> rail,
      rule_id |-> "R01_SALARY",
      rule_explanation |-> "Detected salary income (employer token: " \o employer \o "). Income can never be classified as lifestyle.",
      managerial_l1 |-> "INCOME",
      managerial_l2 |-> "SALARY",
      is_cc_settlement |-> FALSE ]

R02_INTEREST(rail) ==
    [ record_type |-> "TRANSACTION",
      flow_nature |-> FLOW_NATURE["INCOME"],
      cashflow_statement |-> CFS["OPERATING"],
      econ_l1 |-> EP_L1["INCOME"],
      econ_l2 |-> "INTEREST",
      asset_context |-> ASSET_CTX["FINANCIAL"],
      stability_class |-> STABILITY["SEMI"],
      baseline_eligible |-> TRUE,
      event_tag |-> EVENT_TAG["NONE"],
      bank_rail |-> rail,
      rule_id |-> "R02_INTEREST",
      rule_explanation |-> "Interest credited (bank/bonus interest). Operating income.",
      managerial_l1 |-> "INCOME",
      managerial_l2 |-> "INTEREST",
      is_cc_settlement |-> FALSE ]

R03_TRUST_INTERNAL(rail) ==
    [ record_type |-> "TRANSACTION",
      flow_nature |-> FLOW_NATURE["TRANSFER"],
      cashflow_statement |-> CFS["TRANSFER"],
      econ_l1 |-> EP_L1["TRANSFER"],
      econ_l2 |-> "INTERNAL_TRANSFER",
      asset_context |-> ASSET_CTX["GENERAL"],
      stability_class |-> STABILITY["STRUCTURAL"],
      baseline_eligible |-> FALSE,
      event_tag |-> EVENT_TAG["NONE"],
      bank_rail |-> rail,
      rule_id |-> "R03_TRUST_INTERNAL",
      rule_explanation |-> "Trust Bank OTHR Transfer is internal inter-bank fund reallocation; neutralized as Transfer.",
      managerial_l1 |-> "TRANSFER",
      managerial_l2 |-> "INTERNAL_TRANSFER",
      is_cc_settlement |-> FALSE ]

R04_PROPERTY_DOWNPAYMENT(rail) ==
    [ record_type |-> "TRANSACTION",
      flow_nature |-> FLOW_NATURE["EXPENSE"],
      cashflow_statement |-> CFS["INVESTING"],
      econ_l1 |-> EP_L1["HOUSING"],
      econ_l2 |-> "PROPERTY_PURCHASE",
      asset_context |-> ASSET_CTX["PROPERTY"],
      stability_class |-> STABILITY["ONE_OFF"],
      baseline_eligible |-> FALSE,
      event_tag |-> EVENT_TAG["PROPERTY_ACQ"],
      bank_rail |-> rail,
      rule_id |-> "R04_PROPERTY_DOWNPAYMENT",
      rule_explanation |-> "Cheque/DR CO CHARGES treated as property downpayment (cash -> property asset). Investing cashflow.",
      managerial_l1 |-> "HOUSING",
      managerial_l2 |-> "PROPERTY_PURCHASE",
      is_cc_settlement |-> FALSE ]

R05_TAX(rail) ==
    [ record_type |-> "TRANSACTION",
      flow_nature |-> FLOW_NATURE["EXPENSE"],
      cashflow_statement |-> CFS["OPERATING"],
      econ_l1 |-> EP_L1["TAXES"],
      econ_l2 |-> "IRAS_TAX",
      asset_context |-> ASSET_CTX["GENERAL"],
      stability_class |-> STABILITY["SEMI"],
      baseline_eligible |-> TRUE,
      event_tag |-> EVENT_TAG["TAX_EVENT"],
      bank_rail |-> rail,
      rule_id |-> "R05_TAX",
      rule_explanation |-> "IRAS-related tax payment. Operating cashflow.",
      managerial_l1 |-> "TAXES",
      managerial_l2 |-> "IRAS_TAX",
      is_cc_settlement |-> FALSE ]

R06_MORTGAGE(rail) ==
    [ record_type |-> "TRANSACTION",
      flow_nature |-> FLOW_NATURE["EXPENSE"],
      cashflow_statement |-> CFS["FINANCING"],
      econ_l1 |-> EP_L1["DEBT_SERVICE"],
      econ_l2 |-> "MORTGAGE_PAYMENT",
      asset_context |-> ASSET_CTX["PROPERTY"],
      stability_class |-> STABILITY["STRUCTURAL"],
      baseline_eligible |-> TRUE,
      event_tag |-> EVENT_TAG["NONE"],
      bank_rail |-> rail,
      rule_id |-> "R06_MORTGAGE",
      rule_explanation |-> "Detected mortgage/housing loan payment. Financing cashflow (debt service).",
      managerial_l1 |-> "DEBT_SERVICE",
      managerial_l2 |-> "MORTGAGE_PAYMENT",
      is_cc_settlement |-> FALSE ]

R07_CAR_LOAN(rail) ==
    [ record_type |-> "TRANSACTION",
      flow_nature |-> FLOW_NATURE["EXPENSE"],
      cashflow_statement |-> CFS["FINANCING"],
      econ_l1 |-> EP_L1["DEBT_SERVICE"],
      econ_l2 |-> "CAR_LOAN_PAYMENT",
      asset_context |-> ASSET_CTX["CAR"],
      stability_class |-> STABILITY["STRUCTURAL"],
      baseline_eligible |-> TRUE,
      event_tag |-> EVENT_TAG["NONE"],
      bank_rail |-> rail,
      rule_id |-> "R07_CAR_LOAN",
      rule_explanation |-> "Detected car loan payment. Financing cashflow (debt service).",
      managerial_l1 |-> "DEBT_SERVICE",
      managerial_l2 |-> "CAR_LOAN_PAYMENT",
      is_cc_settlement |-> FALSE ]

R08_RENOVATION(rail) ==
    [ record_type |-> "TRANSACTION",
      flow_nature |-> FLOW_NATURE["EXPENSE"],
      cashflow_statement |-> CFS["INVESTING"],
      econ_l1 |-> EP_L1["HOUSING"],
      econ_l2 |-> "RENOVATION",
      asset_context |-> ASSET_CTX["PROPERTY"],
      stability_class |-> STABILITY["ONE_OFF"],
      baseline_eligible |-> FALSE,
      event_tag |-> EVENT_TAG["RENOVATION"],
      bank_rail |-> rail,
      rule_id |-> "R08_RENOVATION",
      rule_explanation |-> "Renovation/capex improvement detected. Investing cashflow (property).",
      managerial_l1 |-> "HOUSING",
      managerial_l2 |-> "RENOVATION",
      is_cc_settlement |-> FALSE ]

R09_MCST(rail) ==
    [ record_type |-> "TRANSACTION",
      flow_nature |-> FLOW_NATURE["EXPENSE"],
      cashflow_statement |-> CFS["OPERATING"],
      econ_l1 |-> EP_L1["HOUSING"],
      econ_l2 |-> "HOA_CONDO_FEES",
      asset_context |-> ASSET_CTX["PROPERTY"],
      stability_class |-> STABILITY["SEMI"],
      baseline_eligible |-> TRUE,
      event_tag |-> EVENT_TAG["NONE"],
      bank_rail |-> rail,
      rule_id |-> "R09_MCST",
      rule_explanation |-> "MCST/condo maintenance fees are operating housing costs (not lifestyle).",
      managerial_l1 |-> "HOUSING",
      managerial_l2 |-> "HOA_CONDO_FEES",
      is_cc_settlement |-> FALSE ]

R10_INS_IN(rail) ==
    [ record_type |-> "TRANSACTION",
      flow_nature |-> FLOW_NATURE["INCOME"],
      cashflow_statement |-> CFS["OPERATING"],
      econ_l1 |-> EP_L1["INCOME"],
      econ_l2 |-> "INSURANCE_PAYOUT",
      asset_context |-> ASSET_CTX["GENERAL"],
      stability_class |-> STABILITY["VARIABLE"],
      baseline_eligible |-> FALSE,
      event_tag |-> EVENT_TAG["NONE"],
      bank_rail |-> rail,
      rule_id |-> "R10_INS_IN",
      rule_explanation |-> "Insurer-related inflow (refund/payout). Treated as operating income.",
      managerial_l1 |-> "INCOME",
      managerial_l2 |-> "INSURANCE_PAYOUT",
      is_cc_settlement |-> FALSE ]

R11_INS_OUT(rail) ==
    [ record_type |-> "TRANSACTION",
      flow_nature |-> FLOW_NATURE["EXPENSE"],
      cashflow_statement |-> CFS["OPERATING"],
      econ_l1 |-> EP_L1["INSURANCE"],
      econ_l2 |-> "PREMIUM",
      asset_context |-> ASSET_CTX["GENERAL"],
      stability_class |-> STABILITY["STRUCTURAL"],
      baseline_eligible |-> TRUE,
      event_tag |-> EVENT_TAG["NONE"],
      bank_rail |-> rail,
      rule_id |-> "R11_INS_OUT",
      rule_explanation |-> "Insurer-related outflow treated as insurance premium (operating).",
      managerial_l1 |-> "INSURANCE",
      managerial_l2 |-> "PREMIUM",
      is_cc_settlement |-> FALSE ]

R12_CC_SETTLEMENT(issuer) ==
    [ record_type |-> "TRANSACTION",
      flow_nature |-> FLOW_NATURE["EXPENSE"],
      cashflow_statement |-> CFS["FINANCING"],
      econ_l1 |-> EP_L1["DEBT_SERVICE"],
      econ_l2 |-> "CREDIT_CARD_SETTLEMENT_" \o issuer,
      asset_context |-> ASSET_CTX["GENERAL"],
      stability_class |-> STABILITY["SEMI"],
      baseline_eligible |-> TRUE,
      event_tag |-> EVENT_TAG["NONE"],
      bank_rail |-> "CARD",
      rule_id |-> "R12_CC_SETTLEMENT",
      rule_explanation |-> "Credit card settlement is liability repayment; classify as financing (debt service).",
      managerial_l1 |-> "LIFESTYLE",
      managerial_l2 |-> "CREDIT_CARD_SPEND_PROXY",
      is_cc_settlement |-> TRUE ]

\* a variant of R13 that leaves the managerial purpose of a transfer in lifestyle
R13_NOT_NEUTRALISED(rail) ==
    [ R03_TRUST_INTERNAL(rail) EXCEPT !.rule_id = "R13_INTERNAL_TRANSFER",
                                      !.managerial_l1 = "LIFESTYLE",
                                      !.managerial_l2 = "DISCRETIONARY" ]

R13_INTERNAL_TRANSFER(rail) ==
    [ record_type |-> "TRANSACTION",
      flow_nature |-> FLOW_NATURE["TRANSFER"],
      cashflow_statement |-> CFS["TRANSFER"],
      econ_l1 |-> EP_L1["TRANSFER"],
      econ_l2 |-> "INTERNAL_TRANSFER",
      asset_context |-> ASSET_CTX["GENERAL"],
      stability_class |-> STABILITY["STRUCTURAL"],
      baseline_eligible |-> FALSE,
      event_tag |-> EVENT_TAG["NONE"],
      bank_rail |-> rail,
      rule_id |-> "R13_INTERNAL_TRANSFER",
      rule_explanation |-> "Detected self-controlled transfer (ownership unchanged). Neutralized as Transfer.",
      managerial_l1 |-> "TRANSFER",
      managerial_l2 |-> "INTERNAL_TRANSFER",
      is_cc_settlement |-> FALSE ]

R17_SRS_CONTRIBUTION(rail) ==
    [ record_type |-> "TRANSACTION",
      flow_nature |-> FLOW_NATURE["EXPENSE"],
      cashflow_statement |-> CFS["INVESTING"],
      econ_l1 |-> EP_L1["SAVINGS_INVESTING"],
      econ_l2 |-> "SRS_CONTRIBUTION",
      asset_context |-> ASSET_CTX["FINANCIAL"],
      stability_class |-> STABILITY["SEMI"],
      baseline_eligible |-> TRUE,
      event_tag |-> EVENT_TAG["NONE"],
      bank_rail |-> rail,
      rule_id |-> "R17_SRS_CONTRIBUTION",
      rule_explanation |-> "SRS contribution detected. Investing cashflow (retirement savings).",
      managerial_l1 |-> "SAVINGS",
      managerial_l2 |-> "SRS_CONTRIBUTION",
      is_cc_settlement |-> FALSE ]

R18_CPF_VOLUNTARY(rail) ==
    [ record_type |-> "TRANSACTION",
      flow_nature |-> FLOW_NATURE["EXPENSE"],
      cashflow_statement |-> CFS["INVESTING"],
      econ_l1 |-> EP_L1["SAVINGS_INVESTING"],
      econ_l2 |-> "CPF_VOLUNTARY",
      asset_context |-> ASSET_CTX["FINANCIAL"],
      stability_class |-> STABILITY["SEMI"],
      baseline_eligible |-> TRUE,
      event_tag |-> EVENT_TAG["NONE"],
      bank_rail |-> rail,
      rule_id |-> "R18_CPF_VOLUNTARY",
      rule_explanation |-> "Voluntary CPF top-up detected. Investing cashflow (retirement savings).",
      managerial_l1 |-> "SAVINGS",
      managerial_l2 |-> "CPF_VOLUNTARY",
      is_cc_settlement |-> FALSE ]

R19_TOWN_COUNCIL(rail) ==
    [ record_type |-> "TRANSACTION",
      flow_nature |-> FLOW_NATURE["EXPENSE"],
      cashflow_statement |-> CFS["OPERATING"],
      econ_l1 |-> EP_L1["HOUSING"],
      econ_l2 |-> "TOWN_COUNCIL_FEES",
      asset_context |-> ASSET_CTX["PROPERTY"],
      stability_class |-> STABILITY["STRUCTURAL"],
      baseline_eligible |-> TRUE,
      event_tag |-> EVENT_TAG["NONE"],
      bank_rail |-> rail,
      rule_id |-> "R19_TOWN_COUNCIL",
      rule_explanation |-> "Town Council / conservancy fees detected. Operating housing expense.",
      managerial_l1 |-> "HOUSING",
      managerial_l2 |-> "TOWN_COUNCIL_FEES",
      is_cc_settlement |-> FALSE ]

R20_GOVT_PAYOUT(rail) ==
    [ record_type |-> "TRANSACTION",
      flow_nature |-> FLOW_NATURE["INCOME"],
      cashflow_statement |-> CFS["OPERATING"],
      econ_l1 |-> EP_L1["INCOME"],
      econ_l2 |-> "GOVT_PAYOUT",
      asset_context |-> ASSET_CTX["GENERAL"],
      stability_class |-> STABILITY["VARIABLE"],
      baseline_eligible |-> FALSE,
      event_tag |-> EVENT_TAG["NONE"],
      bank_rail |-> rail,
      rule_id |-> "R20_GOVT_PAYOUT",
      rule_explanation |-> "Government payout/grant detected. Operating income (non-baseline).",
      managerial_l1 |-> "INCOME",
      managerial_l2 |-> "GOVT_PAYOUT",
      is_cc_settlement |-> FALSE ]

R21_ATM_WITHDRAWAL ==
    [ record_type |-> "TRANSACTION",
      flow_nature |-> FLOW_NATURE["EXPENSE"],
      cashflow_statement |-> CFS["OPERATING"],
      econ_l1 |-> EP_L1["LIFESTYLE"],
      econ_l2 |-> "CASH_WITHDRAWAL",
      asset_context |-> ASSET_CTX["GENERAL"],
      stability_class |-> STABILITY["VARIABLE"],
      baseline_eligible |-> FALSE,
      event_tag |-> EVENT_TAG["NONE"],
      bank_rail |-> "ATM",
      rule_id |-> "R21_ATM_WITHDRAWAL",
      rule_explanation |-> "ATM cash withdrawal detected. Operating lifestyle expense (cash-based spending).",
      managerial_l1 |-> "LIFESTYLE",
      managerial_l2 |-> "CASH_WITHDRAWAL",
      is_cc_settlement |-> FALSE ]

R22_TELECOM(rail) ==
    [ record_type |-> "TRANSACTION",
      flow_nature |-> FLOW_NATURE["EXPENSE"],
      cashflow_statement |-> CFS["OPERATING"],
      econ_l1 |-> EP_L1["LIFESTYLE"],
      econ_l2 |-> "TELECOM",
      asset_context |-> ASSET_CTX["GENERAL"],
      stability_class |-> STABILITY["STRUCTURAL"],
      baseline_eligible |-> TRUE,
      event_tag |-> EVENT_TAG["NONE"],
      bank_rail |-> rail,
      rule_id |-> "R22_TELECOM",
      rule_explanation |-> "Telecom bill detected. Operating lifestyle expense (utilities).",
      managerial_l1 |-> "LIFESTYLE",
      managerial_l2 |-> "TELECOM",
      is_cc_settlement |-> FALSE ]

R23_TRANSIT(rail) ==
    [ record_type |-> "TRANSACTION",
      flow_nature |-> FLOW_NATURE["EXPENSE"],
      cashflow_statement |-> CFS["OPERATING"],
      econ_l1 |-> EP_L1["LIFESTYLE"],
      econ_l2 |-> "TRANSIT",
      asset_context |-> ASSET_CTX["GENERAL"],
      stability_class |-> STABILITY["STRUCTURAL"],
      baseline_eligible |-> TRUE,
      event_tag |-> EVENT_TAG["NONE"],
      bank_rail |-> rail,
      rule_id |-> "R23_TRANSIT",
      rule_explanation |-> "Public transit expense detected. Operating lifestyle expense.",
      managerial_l1 |-> "LIFESTYLE",
      managerial_l2 |-> "TRANSIT",
      is_cc_settlement |-> FALSE ]

R24_BANK_FEES(rail) ==
    [ record_type |-> "TRANSACTION",
      flow_nature |-> FLOW_NATURE["EXPENSE"],
      cashflow_statement |-> CFS["OPERATING"],
      econ_l1 |-> EP_L1["FEES"],
      econ_l2 |-> "BANK_FEES",
      asset_context |-> ASSET_CTX["GENERAL"],
      stability_class |-> STABILITY["STRUCTURAL"],
      baseline_eligible |-> TRUE,
      event_tag |-> EVENT_TAG["NONE"],
      bank_rail |-> rail,
      rule_id |-> "R24_BANK_FEES",
      rule_explanation |-> "Bank fees/charges detected. Operating fees expense.",
      managerial_l1 |-> "FEES",
      managerial_l2 |-> "BANK_FEES",
      is_cc_settlement |-> FALSE ]

R14_OTHER_INCOME(rail) ==
    [ record_type |-> "TRANSACTION",
      flow_nature |-> FLOW_NATURE["INCOME"],
      cashflow_statement |-> CFS["OPERATING"],
      econ_l1 |-> EP_L1["INCOME"],
      econ_l2 |-> "OTHER_INCOME",
      asset_context |-> ASSET_CTX["GENERAL"],
      stability_class |-> STABILITY["VARIABLE"],
      baseline_eligible |-> FALSE,
      event_tag |-> EVENT_TAG["NONE"],
      bank_rail |-> rail,
      rule_id |-> "R14_OTHER_INCOME",
      rule_explanation |-> "Unmapped inflow treated as other operating income (review later if needed).",
      managerial_l1 |-> "INCOME",
      managerial_l2 |-> "OTHER_INCOME",
      is_cc_settlement |-> FALSE ]

R15_GENERIC_OUTFLOW(rail) ==
    [ record_type |-> "TRANSACTION",
      flow_nature |-> FLOW_NATURE["EXPENSE"],
      cashflow_statement |-> CFS["OPERATING"],
      econ_l1 |-> EP_L1["LIFESTYLE"],
      econ_l2 |-> "DISCRETIONARY",
      asset_context |-> ASSET_CTX["GENERAL"],
      stability_class |-> STABILITY["VARIABLE"],
      baseline_eligible |-> FALSE,
      event_tag |-> EVENT_TAG["NONE"],
      bank_rail |-> rail,
      rule_id |-> "R15_GENERIC_OUTFLOW",
      rule_explanation |-> "Unmapped outflow treated as lifestyle discretionary (conservative fallback).",
      managerial_l1 |-> "LIFESTYLE",
      managerial_l2 |-> "DISCRETIONARY",
      is_cc_settlement |-> FALSE ]

R16_ZERO_ADJ(rail) ==
    [ record_type |-> "TRANSACTION",
      flow_nature |-> FLOW_NATURE["NON_CASH"],
      cashflow_statement |-> CFS["NON_CASH"],
      econ_l1 |-> EP_L1["NON_CASH"],
      econ_l2 |-> "ACCOUNTING_ADJUSTMENT",
      asset_context |-> ASSET_CTX["UNKNOWN"],
      stability_class |-> STABILITY["ONE_OFF"],
      baseline_eligible |-> FALSE,
      event_tag |-> EVENT_TAG["NONE"],
      bank_rail |-> rail,
      rule_id |-> "R16_ZERO_ADJ",
      rule_explanation |-> "Zero-amount row treated as non-cash adjustment (should be rare).",
      managerial_l1 |-> "NON-CASH",
      managerial_l2 |-> "ACCOUNTING_ADJUSTMENT",
      is_cc_settlement |-> FALSE ]

\* the fallbacks R14, R15, R16
classify_fallback(amount, rail) ==
    IF amount > 0
        THEN R14_OTHER_INCOME(rail)
    ELSE IF amount < 0
        THEN R15_GENERIC_OUTFLOW(rail)
    ELSE R16_ZERO_ADJ(rail)

\* a variant without the rules R17 to R24
classify_without_r17_plus(d, amount, rail) == classify_fallback(amount, rail)

\* the rules R17 to R24, checked before the fallbacks
classify_r17_plus(d, amount, rail) ==
    IF amount < 0 /\ has_any(d, SRS_PATTERNS)
        THEN R17_SRS_CONTRIBUTION(rail)
    ELSE IF amount < 0 /\ has_any(d, CPF_PATTERNS)
        THEN R18_CPF_VOLUNTARY(rail)
    ELSE IF amount < 0 /\ has_any_town_council(d)
        THEN R19_TOWN_COUNCIL(rail)
    ELSE IF amount > 0 /\ has_any(d, GOVT_PAYOUT_PATTERNS)
        THEN R20_GOVT_PAYOUT(rail)
    ELSE IF amount < 0 /\ has_any(d, ATM_WITHDRAWAL_PATTERNS)
        THEN R21_ATM_WITHDRAWAL
    ELSE IF amount < 0 /\ has_any(d, TELECOM_PATTERNS)
        THEN R22_TELECOM(rail)
    ELSE IF amount < 0 /\ has_any(d, TRANSIT_PATTERNS)
        THEN R23_TRANSIT(rail)
    ELSE IF amount < 0 /\ has_any(d, BANK_FEE_PATTERNS)
        THEN R24_BANK_FEES(rail)
    ELSE classify_fallback(amount, rail)

classify_row(desc, amount) ==
    LET d == norm(desc)
        rail == infer_bank_rail(d)
        employer == FirstEmployer(d, 1)
        issuer == detect_cc_issuer(d)
    IN
    IF has_any(d, BALANCE_PATTERNS)
        THEN R00_BALANCE_BF(rail)
    ELSE IF amount > 0 /\ (has_any(d, SALARY_PATTERNS) \/ contains_any_token(d, SALARY_EMPLOYERS))
        THEN R01_SALARY(rail, employer)
    ELSE IF amount > 0 /\ has_any(d, INTEREST_PATTERNS)
        THEN R02_INTEREST(rail)
    ELSE IF has_any(d, TRUST_BANK_INTERNAL_PATTERNS)
        THEN R03_TRUST_INTERNAL(rail)
    ELSE IF amount < 0 /\ has_any(d, PROPERTY_DOWNPAYMENT_PATTERNS)
        THEN R04_PROPERTY_DOWNPAYMENT(rail)
    ELSE IF amount < 0 /\ has_any(d, TAX_PATTERNS)
        THEN R05_TAX(rail)
    ELSE IF amount < 0 /\ has_any(d, MORTGAGE_PATTERNS)
        THEN R06_MORTGAGE(rail)
    ELSE IF amount < 0 /\ has_any(d, CAR_FINANCE_PATTERNS)
        THEN R07_CAR_LOAN(rail)
    ELSE IF amount < 0 /\ has_any(d, RENOVATION_PATTERNS)
        THEN R08_RENOVATION(rail)
    ELSE IF amount < 0 /\ has_any(d, MCST_PATTERNS)
        THEN R09_MCST(rail)
    ELSE IF contains_any_token(d, INSURERS) /\ amount > 0 /\ has_any(d, INS_INFLOW_MARKERS)
        THEN R10_INS_IN(rail)
    ELSE IF contains_any_token(d, INSURERS) /\ amount < 0
        THEN R11_INS_OUT(rail)
    ELSE IF /\ amount < 0
            /\ issuer # ""
            /\ (IsIn(<<"BILL", WS, "PAYMENT">>, d) \/ IsIn(<<"CC">>, d) \/ IsIn(<<"CARDS">>, d))
        THEN R12_CC_SETTLEMENT(issuer)
    ELSE IF /\ (has_any(d, TRANSFER_PATTERNS) \/ rail \in {"FAST", "PAYNOW", "GIRO"})
            /\ contains_any_token(d, SELF_ENTITIES)
        THEN R13_INTERNAL_TRANSFER(rail)
    ELSE classify_r17_plus(d, amount, rail)

---------------------------------------------------------------------------
(* The override merger: load_overrides and apply_overrides.

   A cell of the override sheet is the text typed into it, a sequence of
   tokens, or NA for a cell left empty.  The taxonomy columns of the ledger
   hold label strings: they come from classify_row or from a cell that was
   stripped and upper-cased, so stripping and upper-casing them again when
   they are read back changes nothing. *)

MANAGERIAL_DERIVE_MAP_INCOME_AS_LIFESTYLE(pair) ==
    IF pair[1] = "INCOME" THEN <<"LIFESTYLE", "DISCRETIONARY">> ELSE pair

\* MANAGERIAL_DERIVE_MAP.get(pair, pair)
\* the lookup table without any entry: every pair falls back to itself
MANAGERIAL_DERIVE_MAP_EMPTY(pair) == pair

MANAGERIAL_DERIVE_MAP(pair) ==
    CASE pair = <<"NON-CASH", "BALANCE_BF">> -> <<"NON-CASH", "BALANCE_BF">>
      [] pair = <<"INCOME", "SALARY">> -> <<"INCOME", "SALARY">>
      [] pair = <<"INCOME", "INTEREST">> -> <<"INCOME", "INTEREST">>
      [] pair = <<"TRANSFER", "INTERNAL_TRANSFER">> -> <<"TRANSFER", "INTERNAL_TRANSFER">>
      [] pair = <<"HOUSING", "PROPERTY_PURCHASE">> -> <<"HOUSING", "PROPERTY_PURCHASE">>
      [] pair = <<"TAXES", "IRAS_TAX">> -> <<"TAXES", "IRAS_TAX">>
      [] pair = <<"DEBT_SERVICE", "MORTGAGE_PAYMENT">> -> <<"DEBT_SERVICE", "MORTGAGE_PAYMENT">>
      [] pair = <<"DEBT_SERVICE", "CAR_LOAN_PAYMENT">> -> <<"DEBT_SERVICE", "CAR_LOAN_PAYMENT">>
      [] pair = <<"HOUSING", "RENOVATION">> -> <<"HOUSING", "RENOVATION">>
      [] pair = <<"HOUSING", "HOA_CONDO_FEES">> -> <<"HOUSING", "HOA_CONDO_FEES">>
      [] pair = <<"INCOME", "INSURANCE_PAYOUT">> -> <<"INCOME", "INSURANCE_PAYOUT">>
      [] pair = <<"INSURANCE", "PREMIUM">> -> <<"INSURANCE", "PREMIUM">>
      [] pair = <<"DEBT_SERVICE", "CREDIT_CARD_SETTLEMENT_CITI">> -> <<"LIFESTYLE", "CREDIT_CARD_SPEND_PROXY">>
      [] pair = <<"DEBT_SERVICE", "CREDIT_CARD_SETTLEMENT_SCB">> -> <<"LIFESTYLE", "CREDIT_CARD_SPEND_PROXY">>
      [] pair = <<"DEBT_SERVICE", "CREDIT_CARD_SETTLEMENT_HSBC">> -> <<"LIFESTYLE", "CREDIT_CARD_SPEND_PROXY">>
      [] pair = <<"DEBT_SERVICE", "CREDIT_CARD_SETTLEMENT_UOB">> -> <<"LIFESTYLE", "CREDIT_CARD_SPEND_PROXY">>
      [] pair = <<"DEBT_SERVICE", "CREDIT_CARD_SETTLEMENT_OCBC">> -> <<"LIFESTYLE", "CREDIT_CARD_SPEND_PROXY">>
      [] pair = <<"DEBT_SERVICE", "CREDIT_CARD_SETTLEMENT_AMEX">> -> <<"LIFESTYLE", "CREDIT_CARD_SPEND_PROXY">>
      [] pair = <<"INCOME", "OTHER_INCOME">> -> <<"INCOME", "OTHER_INCOME">>
      [] pair = <<"LIFESTYLE", "DISCRETIONARY">> -> <<"LIFESTYLE", "DISCRETIONARY">>
      [] pair = <<"NON-CASH", "ACCOUNTING_ADJUSTMENT">> -> <<"NON-CASH", "ACCOUNTING_ADJUSTMENT">>
      [] pair = <<"SAVINGS_INVESTING", "SRS_CONTRIBUTION">> -> <<"SAVINGS", "SRS_CONTRIBUTION">>
      [] pair = <<"SAVINGS_INVESTING", "CPF_VOLUNTARY">> -> <<"SAVINGS", "CPF_VOLUNTARY">>
      [] pair = <<"HOUSING", "TOWN_COUNCIL_FEES">> -> <<"HOUSING", "TOWN_COUNCIL_FEES">>
      [] pair = <<"INCOME", "GOVT_PAYOUT">> -> <<"INCOME", "GOVT_PAYOUT">>
      [] pair = <<"LIFESTYLE", "CASH_WITHDRAWAL">> -> <<"LIFESTYLE", "CASH_WITHDRAWAL">>
      [] pair = <<"LIFESTYLE", "TELECOM">> -> <<"LIFESTYLE", "TELECOM">>
      [] pair = <<"LIFESTYLE", "TRANSIT">> -> <<"LIFESTYLE", "TRANSIT">>
      [] OTHER -> pair

\* an empty cell of the sheet (read_excel gives NaN)
NA == <<"<empty cell>">>

\* str(x) of a text: its tokens written one after the other
RECURSIVE str(_)
str(c) == IF c = <<>> THEN "" ELSE c[1] \o str(Tail(c))

\* str(x).strip().upper() as a label
Label(c) == str(UpperText(strip(c)))

\* Series.astype(str) on a cell.  Whether an empty cell becomes the text "nan"
\* or stays missing depends on the pandas release the program runs on.
astype_str(c, nan_as_text) ==
    IF c = NA THEN (IF nan_as_text THEN <<"nan">> ELSE NA) ELSE c

\* every row taken as enabled
EnabledFlagAlways(c) == TRUE

\* ov["Enabled"].astype(str).str.upper().isin(["TRUE", "1", "YES", "Y"])
EnabledFlag(c) == UpperText(c) \in { <<"TRUE">>, <<"1">>, <<"YES">>, <<"Y">> }

\* _parse_bool_or_na: <<>> for NA, <<b>> for the boolean b
_parse_bool_or_na(x) ==
    IF x = NA \/ strip(x) = <<>> THEN <<>>
    ELSE << UpperText(strip(x)) \in { <<"TRUE">>, <<"1">>, <<"YES">>, <<"Y">> } >>

\* _has_value(cell), and _override_has_value(o_row, col) on a cell
_has_value(cell) ==
    /\ cell # NA
    /\ strip(cell) # <<>>
    /\ Label(cell) \notin {"(BLANK)", "BLANK"}

\* f"OVR_{i+1:04d}" for the row at position k = i + 1
OverrideId(k) == "OVR_000" \o ToString(k)

NoDuplicateIds(t) == FALSE

\* ov["Txn_ID"].duplicated(keep=False).any()
DuplicateIds(t) == \E i, j \in DOMAIN t : i # j /\ t[i].Txn_ID = t[j].Txn_ID

\* the managerial cells load_overrides writes into one row of the table
DeriveInTable(r) ==
    LET econ_l1 == r.Economic_Purpose_L1
        econ_l2 == r.Economic_Purpose_L2
        mgr_l1 == r.Managerial_Purpose_L1
        mgr_l2 == r.Managerial_Purpose_L2
        econ_ready == _has_value(econ_l1) /\ _has_value(econ_l2)
        mgr_l1_missing == ~_has_value(mgr_l1)
        mgr_l2_missing == ~_has_value(mgr_l2)
        d == MANAGERIAL_DERIVE_MAP(<<Label(econ_l1), Label(econ_l2)>>)
    IN  IF econ_ready /\ (mgr_l1_missing \/ mgr_l2_missing)
        THEN [ r EXCEPT
                 !.Managerial_Purpose_L1 =
                     IF mgr_l1_missing THEN <<d[1]>> ELSE <<Label(mgr_l1)>>,
                 !.Managerial_Purpose_L2 =
                     IF mgr_l2_missing THEN <<d[2]>> ELSE <<Label(mgr_l2)>> ]
        ELSE [ r EXCEPT
                 !.Managerial_Purpose_L1 =
                     IF _has_value(mgr_l1) THEN <<Label(mgr_l1)>> ELSE NA,
                 !.Managerial_Purpose_L2 =
                     IF _has_value(mgr_l2) THEN <<Label(mgr_l2)>> ELSE NA ]

OVERRIDE_REQUIRED_COLS ==
    { "Txn_ID", "Cashflow_Statement", "Economic_Purpose_L1", "Economic_Purpose_L2",
      "Managerial_Purpose_L1", "Managerial_Purpose_L2", "Baseline_Eligible",
      "Override_Reason", "Enabled" }

\* load_overrides() on the rows of a sheet that is configured and exists; a
\* column the sheet does not have is a field its rows do not have
load_overrides(xlsx_rows, nan_as_text) ==
    LET \* if c not in ov.columns: ov[c] = pd.NA
        sheet == [ k \in DOMAIN xlsx_rows |->
                     [ c \in OVERRIDE_REQUIRED_COLS |->
                         IF c \in DOMAIN xlsx_rows[k] THEN xlsx_rows[k][c] ELSE NA ] ]
        parsed == [ k \in DOMAIN sheet |->
                      [ sheet[k] EXCEPT
                          !.Enabled = EnabledFlag(sheet[k].Enabled),
                          !.Baseline_Eligible = _parse_bool_or_na(sheet[k].Baseline_Eligible),
                          !.Txn_ID = LET c == astype_str(sheet[k].Txn_ID, nan_as_text)
                                     IN  IF c = NA THEN NA ELSE strip(c) ] ]
        HasId(r) == r.Txn_ID # NA /\ Len(r.Txn_ID) > 0
        IsEnabled(r) == r.Enabled = TRUE
        kept == SelectSeq(SelectSeq(parsed, HasId), IsEnabled)
        numbered == [ k \in DOMAIN kept |->
                        [ f \in DOMAIN kept[k] \cup {"Override_ID"} |->
                            IF f = "Override_ID" THEN OverrideId(k) ELSE kept[k][f] ] ]
        Normal(c) == IF _has_value(c) THEN <<Label(c)>> ELSE c
        normalised == [ k \in DOMAIN numbered |->
                          [ numbered[k] EXCEPT
                              !.Economic_Purpose_L1 = Normal(@),
                              !.Economic_Purpose_L2 = Normal(@),
                              !.Managerial_Purpose_L1 = Normal(@),
                              !.Managerial_Purpose_L2 = Normal(@) ] ]
    IN  IF DuplicateIds(numbered)
        THEN Raise("Duplicate Txn_ID in overrides.xlsx (must be unique)")
        ELSE Ok([ k \in DOMAIN normalised |-> DeriveInTable(normalised[k]) ])

\* the ledger row the merger writes for a transaction matched by the row o of
\* the overrides table
ApplyOverrideRow(row, o) ==
    LET mgr_l1_provided == _has_value(o.Managerial_Purpose_L1)
        mgr_l2_provided == _has_value(o.Managerial_Purpose_L2)
        Field(col) == IF _has_value(o[col]) THEN Label(o[col]) ELSE row[col]
        cashflow_stmt == Field("Cashflow_Statement")
        econ_l1 == Field("Economic_Purpose_L1")
        econ_l2 == Field("Economic_Purpose_L2")
        new_reason == strip(o.Override_Reason)
        \* str(df.at[i, "Override_Reason"]).strip(): an empty cell reads "nan"
        existing == strip(IF row.Override_Reason = NA THEN <<"nan">>
                          ELSE row.Override_Reason)
        by_purpose ==
            IF econ_l1 = "DEBT_SERVICE" /\ StartsWith(econ_l2, "CREDIT_CARD_SETTLEMENT")
            THEN <<"LIFESTYLE", "CREDIT_CARD_SPEND_PROXY">>
            ELSE MANAGERIAL_DERIVE_MAP(<<econ_l1, econ_l2>>)
        derived ==
            IF cashflow_stmt = "TRANSFER" THEN <<"TRANSFER", "INTERNAL_TRANSFER">>
            ELSE by_purpose
    IN  [ row EXCEPT
            !.Cashflow_Statement = cashflow_stmt,
            !.Economic_Purpose_L1 = econ_l1,
            !.Economic_Purpose_L2 = econ_l2,
            !.Managerial_Purpose_L1 =
                IF mgr_l1_provided THEN Label(o.Managerial_Purpose_L1) ELSE derived[1],
            !.Managerial_Purpose_L2 =
                IF mgr_l2_provided THEN Label(o.Managerial_Purpose_L2) ELSE derived[2],
            !.Baseline_Eligible =
                IF o.Baseline_Eligible = <<>> THEN @ ELSE o.Baseline_Eligible[1],
            !.Override_Reason =
                IF ~_has_value(o.Override_Reason) THEN @
                ELSE IF existing # <<>>
                     THEN existing \o <<WS, "|", WS>> \o new_reason
                     ELSE new_reason,
            !.Was_Overridden = TRUE,
            !.Override_ID_Applied = o.Override_ID ]

\* the first override of the table applied to every row
apply_overrides_to_every_row(df, table) ==
    [ i \in DOMAIN df |->
        IF table = <<>> THEN df[i] ELSE ApplyOverrideRow(df[i], table[1]) ]

\* apply_overrides(df, ov)
apply_overrides(df, table) ==
    [ i \in DOMAIN df |->
        LET txn_id == strip(df[i].Txn_ID.text)
            hits == { k \in DOMAIN table : table[k].Txn_ID = txn_id }
        IN  IF txn_id = <<>> \/ hits = {} THEN df[i]
            ELSE ApplyOverrideRow(df[i], table[CHOOSE k \in hits : TRUE]) ]

\* the columns classify_df adds to a row before the overrides are applied
ClassifiedRow(row) ==
    LET x == classify_row(row.Description, row.Amount)
    IN  [ Txn_ID |-> row.Txn_ID,
          Description |-> row.Description,
          Amount |-> row.Amount,
          Record_Type |-> x.record_type,
          Flow_Nature |-> x.flow_nature,
          Cashflow_Statement |-> x.cashflow_statement,
          Economic_Purpose_L1 |-> x.econ_l1,
          Economic_Purpose_L2 |-> x.econ_l2,
          Baseline_Eligible |-> x.baseline_eligible,
          Bank_Rail |-> x.bank_rail,
          Rule_ID |-> x.rule_id,
          Managerial_Purpose_L1 |-> x.managerial_l1,
          Managerial_Purpose_L2 |-> x.managerial_l2,
          Is_CC_Settlement |-> x.is_cc_settlement,
          Cashflow_Section |-> x.cashflow_statement,
          Category_L1 |-> x.econ_l1,
          Category_L2 |-> x.econ_l2,
          Was_Overridden |-> FALSE,
          Override_ID_Applied |-> "",
          \* kept if the ledger came with the column, "" otherwise
          Override_Reason |->
              IF "Override_Reason" \in DOMAIN row THEN row.Override_Reason ELSE <<>> ]

\* pd.to_numeric(df["Amount"], errors="coerce").fillna(0.0)
FillAmount(df) ==
    [ i \in DOMAIN df |-> [ df[i] EXCEPT !.Amount = IF @ = NaN THEN 0 ELSE @ ] ]

\* classify_df(df): [ok, err, df, ledger, table], ledger the frame before the
\* overrides and table what load_overrides returned
classify_df(df, sheet, nan_as_text) ==
    LET ids == ensure_txn_id(FillAmount(df))
        classified == [ i \in DOMAIN ids.df |-> ClassifiedRow(ids.df[i]) ]
        loaded == load_overrides(sheet, nan_as_text)
        Fail(msg) == [ ok |-> FALSE, err |-> msg, df |-> <<>>, ledger |-> <<>>,
                       table |-> <<>> ]
    IN  IF \E i \in DOMAIN df : "Amount" \notin DOMAIN df[i]
        THEN Fail("Missing required column: Amount")
        ELSE IF \E i \in DOMAIN df : "Description" \notin DOMAIN df[i]
        THEN Fail("AttributeError: 'str' object has no attribute 'astype'")
        ELSE IF ~ids.ok
        THEN [ ok |-> FALSE, err |-> ids.err, df |-> <<>>, ledger |-> <<>>, table |-> <<>> ]
        ELSE IF ~loaded.ok
        THEN [ ok |-> FALSE, err |-> loaded.err, df |-> <<>>, ledger |-> classified,
               table |-> <<>> ]
        ELSE [ ok |-> TRUE, err |-> "", df |-> apply_overrides(classified, loaded.df),
               ledger |-> classified, table |-> loaded.df ]

---------------------------------------------------------------------------
(* auto_classify_transactions.main: classify_df on a ledger with an override
   sheet, then the classified ledger is written *)

MaxOverrideRows == 2

T1 == <<"T1">>
T2 == <<"T2">>

\* the transaction the overrides aim at: a salary, an unmapped outflow, a
\* card settlement or a transfer between own accounts
TargetRows ==
    { Row(D1, 120000, <<"SALARY", WS, "PAYMENT">>, F1, 300000, NaN, 120000, Text(T1)),
      Row(D1, -50000, MISC, F1, 100000, 50000, NaN, Text(T1)),
      Row(D1, -50000, <<"CITI", WS, "BILL", WS, "PAYMENT">>, F1, 100000, 50000, NaN, Text(T1)),
      Row(D1, 120000, <<"FAST", WS, "TRUST", WS, "BANK">>, F1, 300000, NaN, 120000, Text(T1)) }

OtherRow == Row(D1, -50000, MISC, F2, 100000, 50000, NaN, Text(T2))

Ledgers == { <<r, OtherRow>> : r \in TargetRows }

OverrideRow(id, cf, e1, e2, m1, m2, be, reason, enabled) ==
    [ Txn_ID |-> id, Cashflow_Statement |-> cf, Economic_Purpose_L1 |-> e1,
      Economic_Purpose_L2 |-> e2, Managerial_Purpose_L1 |-> m1,
      Managerial_Purpose_L2 |-> m2, Baseline_Eligible |-> be,
      Override_Reason |-> reason, Enabled |-> enabled ]

\* a sheet of one row: every mix of supplied and blank fields
FieldRows ==
    { OverrideRow(id, cf, e1, e2, m1, m2, be, reason, <<"True">>) :
        id \in { T1, <<"T9">> },
        cf \in { NA, <<"transfer">>, <<"OPERATING">> },
        e1 \in { NA, <<"DEBT_SERVICE">>, <<"INCOME">>, <<WS, "housing">> },
        e2 \in { NA, <<"CREDIT_CARD_SETTLEMENT_DBS">>, <<"SALARY">>, <<"RENOVATION">> },
        m1 \in { NA, <<"LIFESTYLE">> },
        m2 \in { NA, <<"(", "blank", ")">>, <<"DISCRETIONARY">> },
        be \in { NA, <<"yes">>, <<"(", "blank", ")">> },
        reason \in { NA, <<"fix">> } }

\* the rows of a sheet of several rows: every kind of identifier cell, enabled
\* or not
IdRows ==
    { OverrideRow(id, NA, <<"HOUSING">>, <<"RENOVATION">>, NA, NA, NA, NA, enabled) :
        id \in { NA, <<>>, <<WS>>, T1, <<WS, "T1", WS>>, T2 },
        enabled \in { <<"True">>, <<"yes">>, NA } }

Sheets ==
    { <<>> } \cup { <<r>> : r \in FieldRows }
             \cup UNION { [1..n -> IdRows] : n \in 2..MaxOverrideRows }

\* a table without the column col, a table with the column col holding cell
WithoutColumn(df, col) ==
    [ i \in DOMAIN df |-> [ f \in DOMAIN df[i] \ {col} |-> df[i][f] ] ]
WithColumn(df, col, cell) ==
    [ i \in DOMAIN df |->
        [ f \in DOMAIN df[i] \cup {col} |-> IF f = col THEN cell[i] ELSE df[i][f] ] ]

\* Ledgers as main may read them: rows without identifier (two identical
\* ones, one without amount), two rows under one identifier, a ledger that
\* lacks a column, a ledger that was classified and merged before
InputLedgers ==
    LET fresh == <<BaseRow, Row(D1, -50000, MISC, F2, 100000, 50000, NaN, NoId)>>
        known == <<Row(D1, -50000, MISC, F1, 100000, 50000, NaN, Text(T1)), OtherRow>>
    IN  { fresh, known,
          <<BaseRow, BaseRow>>,
          <<Row(D1, NaN, MISC, F1, 100000, NaN, NaN, NoId), OtherRow>>,
          <<Row(D1, 120000, MISC, F1, 300000, NaN, 120000, Text(T2)), OtherRow>> }
        \cup { WithoutColumn(fresh, col) : col \in {"Amount", "Description", "Txn_ID"} }
        \cup { WithColumn(known, "Override_Reason", <<cell, NA>>) :
                 cell \in { NA, <<"old">> } }

\* the sheets read with them: one row that gives a reason, two rows under one
\* identifier, a sheet that lacks a column
InputSheets ==
    LET row == OverrideRow(T1, <<"OPERATING">>, <<"HOUSING">>, <<"RENOVATION">>, NA, NA,
                           NA, <<WS, "fix">>, <<"True">>)
    IN  { <<>>, <<row>>, <<row, row>>,
          <<[ row EXCEPT !.Override_Reason = NA ]>> }
        \cup { WithoutColumn(<<row>>, col) : col \in OVERRIDE_REQUIRED_COLS }

OUTPUT_CSV == "classified_transactions_v3.csv"

\* the output directory before the run: empty, or holding the ledger of an
\* earlier run
OutputDirs == { NoFiles, OUTPUT_CSV :> <<"ledger of an earlier run">> }

InitOv ==
    /\ pc = "input" /\ stage = "overrides"
    /\ \/ tbl \in Ledgers /\ xlsx \in Sheets /\ files = NoFiles
       \/ tbl \in InputLedgers /\ xlsx \in InputSheets /\ files \in OutputDirs
    /\ ledger = <<>> /\ ov = <<>> /\ merged = <<>>
    /\ err = "" /\ out = <<>> /\ perm = FALSE
    /\ argDesc = <<>> /\ argAmount = 0 /\ result = <<>>
    /\ csv_files = <<>> /\ all_cleaned = <<>> /\ per_file_reports = <<>>
    /\ NoPipeline

\* df_out = classify_df(df)
ClassifyDf ==
    /\ pc = "input" /\ stage = "overrides"
    /\ \E nan_as_text \in BOOLEAN :
          \E r \in { classify_df(tbl, xlsx, nan_as_text) } :
              /\ pc' = IF r.ok THEN "done" ELSE "error"
              /\ err' = r.err
              /\ ledger' = r.ledger
              /\ ov' = r.table
              /\ merged' = r.df
    /\ UNCHANGED <<stage, tbl, out, perm, xlsx, classVars, files, mainVars, plVars>>

\* the ledger written whether or not classify_df returned
ToCsvAfterError ==
    /\ pc \in {"done", "error"} /\ stage = "overrides"
    /\ files' = (OUTPUT_CSV :> merged) @@ files
    /\ pc' = "written"
    /\ UNCHANGED <<err, stage, tbl, out, perm, classVars, ovVars, mainVars, plVars>>

\* df_out.to_csv(output_path, index=False)
ToCsv ==
    /\ pc = "done" /\ stage = "overrides"
    /\ files' = (OUTPUT_CSV :> merged) @@ files
    /\ pc' = "written"
    /\ UNCHANGED <<err, stage, tbl, out, perm, classVars, ovVars, mainVars, plVars>>

NextOv == ClassifyDf \/ ToCsv

SpecOv == InitOv /\ [][NextOv]_vars

---------------------------------------------------------------------------
(* classify_row on one (description, amount) pair *)

MaxPhrases == 2

Phrases ==
    { <<"BALANCE", WS, "B", "/", "F">>,
      <<"SALARY", WS, "PAYMENT">>,
      <<"HPL">>,
      <<"INTEREST", WS, "CREDIT">>,
      <<"TRUST", WS, "BANK">>,
      <<"OTHR", WS, "TRANSFER">>,
      <<"CO", "-", "123456", "-", "001">>,
      <<"IRAS">>,
      <<"TRF", ".", WS, "WD", ".", WS, "LOANS">>,
      <<"HLF", "-", "12345">>,
      <<"RENOV">>,
      <<"MCST">>,
      <<"AIA">>,
      <<"INWARD", WS, "CR">>,
      <<"CITI">>,
      <<"BILL", WS, "PAYMENT">>,
      <<"MBK", "-", "UOB", WS, "CC">>,
      <<"FAST">>,
      <<"mBK", "-", "3493939244">>,
      <<"(", "SRS", ")">>,
      <<"CPF", WS, "TOP", "-", "UP">>,
      <<"WESTCOASTTOWNCOUNCIL">>,
      <<"GOVT", WS, "PAYOUT">>,
      <<"CASH", WS, "WITHDRAWAL", "-", "ATM">>,
      <<"M1">>,
      <<"5">>,
      <<"EZ", "-", "LINK">>,
      <<"Cheque", WS, "Charges">>,
      <<WS, "salary", WS, WS, "payment", WS>> }

\* the descriptions made of up to n phrases, one blank between two phrases
RECURSIVE DescriptionsOf(_)
DescriptionsOf(n) ==
    IF n = 0 THEN { <<>> }
    ELSE LET shorter == DescriptionsOf(n - 1)
         IN  shorter \cup Phrases
                     \cup { x \o <<WS>> \o p : x \in shorter \ { <<>> }, p \in Phrases }

Descriptions == DescriptionsOf(MaxPhrases)

\* amounts in thousandths: an outflow, a zero row, an inflow
Amounts == { -12340, 0, 12340 }

InitClassify ==
    /\ pc = "input" /\ stage = "row"
    /\ argDesc \in Descriptions /\ argAmount \in Amounts
    /\ result = <<>>
    /\ err = "" /\ tbl = <<>> /\ out = <<>> /\ perm = FALSE
    /\ ledger = <<>> /\ xlsx = <<>> /\ ov = <<>> /\ merged = <<>>
    /\ files = NoFiles /\ csv_files = <<>> /\ all_cleaned = <<>> /\ per_file_reports = <<>>
    /\ NoPipeline

ClassifyRow ==
    /\ pc = "input" /\ stage = "row"
    /\ result' = classify_row(argDesc, argAmount)
    /\ pc' = "done"
    /\ UNCHANGED <<err, stage, tbl, out, perm, argDesc, argAmount, ovVars, files, mainVars, plVars>>

NextClassify == ClassifyRow

SpecClassify == InitClassify /\ [][NextClassify]_vars

---------------------------------------------------------------------------
(* Properties of classify_row *)

\* the rule order the classifier is specified to follow
RuleOrder ==
    << "R00_BALANCE_BF", "R01_SALARY", "R02_INTEREST", "R03_TRUST_INTERNAL",
       "R04_PROPERTY_DOWNPAYMENT", "R05_TAX", "R06_MORTGAGE", "R07_CAR_LOAN",
       "R08_RENOVATION", "R09_MCST", "R10_INS_IN", "R11_INS_OUT",
       "R12_CC_SETTLEMENT", "R13_INTERNAL_TRANSFER",
       "R17_SRS_CONTRIBUTION", "R18_CPF_VOLUNTARY", "R19_TOWN_COUNCIL",
       "R20_GOVT_PAYOUT", "R21_ATM_WITHDRAWAL", "R22_TELECOM", "R23_TRANSIT",
       "R24_BANK_FEES",
       "R14_OTHER_INCOME", "R15_GENERIC_OUTFLOW", "R16_ZERO_ADJ" >>

\* the predicate of each rule on the normalised description d and the amount
RuleHolds(rule, d, amount) ==
    CASE rule = "R00_BALANCE_BF" -> has_any(d, BALANCE_PATTERNS)
      [] rule = "R01_SALARY" ->
            amount > 0 /\ (has_any(d, SALARY_PATTERNS) \/ contains_any_token(d, SALARY_EMPLOYERS))
      [] rule = "R02_INTEREST" -> amount > 0 /\ has_any(d, INTEREST_PATTERNS)
      [] rule = "R03_TRUST_INTERNAL" -> has_any(d, TRUST_BANK_INTERNAL_PATTERNS)
      [] rule = "R04_PROPERTY_DOWNPAYMENT" -> amount < 0 /\ has_any(d, PROPERTY_DOWNPAYMENT_PATTERNS)
      [] rule = "R05_TAX" -> amount < 0 /\ has_any(d, TAX_PATTERNS)
      [] rule = "R06_MORTGAGE" -> amount < 0 /\ has_any(d, MORTGAGE_PATTERNS)
      [] rule = "R07_CAR_LOAN" -> amount < 0 /\ has_any(d, CAR_FINANCE_PATTERNS)
      [] rule = "R08_RENOVATION" -> amount < 0 /\ has_any(d, RENOVATION_PATTERNS)
      [] rule = "R09_MCST" -> amount < 0 /\ has_any(d, MCST_PATTERNS)
      [] rule = "R10_INS_IN" ->
            contains_any_token(d, INSURERS) /\ amount > 0 /\ has_any(d, INS_INFLOW_MARKERS)
      [] rule = "R11_INS_OUT" -> contains_any_token(d, INSURERS) /\ amount < 0
      [] rule = "R12_CC_SETTLEMENT" ->
            /\ amount < 0
            /\ detect_cc_issuer(d) # ""
            /\ (IsIn(<<"BILL", WS, "PAYMENT">>, d) \/ IsIn(<<"CC">>, d) \/ IsIn(<<"CARDS">>, d))
      [] rule = "R13_INTERNAL_TRANSFER" ->
            /\ (has_any(d, TRANSFER_PATTERNS) \/ infer_bank_rail(d) \in {"FAST", "PAYNOW", "GIRO"})
            /\ contains_any_token(d, SELF_ENTITIES)
      [] rule = "R17_SRS_CONTRIBUTION" -> amount < 0 /\ has_any(d, SRS_PATTERNS)
      [] rule = "R18_CPF_VOLUNTARY" -> amount < 0 /\ has_any(d, CPF_PATTERNS)
      [] rule = "R19_TOWN_COUNCIL" -> amount < 0 /\ has_any_town_council(d)
      [] rule = "R20_GOVT_PAYOUT" -> amount > 0 /\ has_any(d, GOVT_PAYOUT_PATTERNS)
      [] rule = "R21_ATM_WITHDRAWAL" -> amount < 0 /\ has_any(d, ATM_WITHDRAWAL_PATTERNS)
      [] rule = "R22_TELECOM" -> amount < 0 /\ has_any(d, TELECOM_PATTERNS)
      [] rule = "R23_TRANSIT" -> amount < 0 /\ has_any(d, TRANSIT_PATTERNS)
      [] rule = "R24_BANK_FEES" -> amount < 0 /\ has_any(d, BANK_FEE_PATTERNS)
      [] rule = "R14_OTHER_INCOME" -> amount > 0
      [] rule = "R15_GENERIC_OUTFLOW" -> amount < 0
      [] rule = "R16_ZERO_ADJ" -> amount = 0

\* the positions, in RuleOrder, of the rules whose predicate holds
Holding(d, amount) ==
    { k \in DOMAIN RuleOrder : RuleHolds(RuleOrder[k], d, amount) }

Classified == pc = "done" /\ stage = "row"

\* one plain input for each rule, in the order of RuleOrder
RuleExamples ==
    << << <<"BALANCE", WS, "B", "/", "F">>, 0 >>,
       << <<"SALARY", WS, "PAYMENT">>, 1 >>,
       << <<"INTEREST", WS, "CREDIT">>, 1 >>,
       << <<"TRUST", WS, "BANK", WS, "OTHR", WS, "TRANSFER">>, 1 >>,
       << <<"CO", "-", "123456", "-", "001">>, -1 >>,
       << <<"IRAS">>, -1 >>,
       << <<"MORTGAGE">>, -1 >>,
       << <<"HLF", "-", "12345">>, -1 >>,
       << <<"RENOV">>, -1 >>,
       << <<"MCST">>, -1 >>,
       << <<"AIA", WS, "INWARD", WS, "CR">>, 1 >>,
       << <<"AIA">>, -1 >>,
       << <<"CITI", WS, "CC">>, -1 >>,
       << <<"TRANSFER", WS, "WEILUN">>, -1 >>,
       << <<"(", "SRS", ")">>, -1 >>,
       << <<"CPF", WS, "TOPUP">>, -1 >>,
       << <<"TOWN", WS, "COUNCIL">>, -1 >>,
       << <<"GST", WS, "VOUCHER">>, 1 >>,
       << <<"ATM", WS, "WITHDRAWAL">>, -1 >>,
       << <<"STARHUB">>, -1 >>,
       << <<"SMRT">>, -1 >>,
       << <<"MONTHLY", WS, "FEE">>, -1 >>,
       << <<>>, 1 >>,
       << <<>>, -1 >>,
       << <<>>, 0 >> >>

\* the taxonomy fields of a result that the winning rule alone decides (the
\* economic sub-type of R12 also names the card issuer found in the text)
RuleTaxonomy(r) ==
    << r.record_type, r.flow_nature, r.cashflow_statement, r.econ_l1,
       IF r.rule_id = "R12_CC_SETTLEMENT" THEN "" ELSE r.econ_l2,
       r.asset_context, r.stability_class, r.baseline_eligible, r.event_tag,
       r.managerial_l1, r.managerial_l2, r.is_cc_settlement >>

\* C4: first match wins.  classify_row gives a result for every input; the
\* rule_id of the result is the first rule of RuleOrder whose predicate holds
\* on the upper-cased description and the amount; the result is the same for
\* the description and for its upper-cased form; and the taxonomy fields are
\* those the winning rule gives on a plain input on which no other rule but
\* a fallback holds, so that no later rule has a part in them.
C4_FirstMatchWins ==
    Classified =>
        LET d == norm(argDesc)
            holding == Holding(d, argAmount)
        IN  /\ holding # {}
            /\ \E k \in holding :
                  /\ \A j \in holding : k <= j
                  /\ result.rule_id = RuleOrder[k]
                  /\ RuleTaxonomy(result) =
                        RuleTaxonomy(classify_row(RuleExamples[k][1], RuleExamples[k][2]))
            /\ classify_row(UpperText(argDesc), argAmount) = result

\* C4 witness: an outflow whose description holds a cashier's-order number and
\* an ATM marker; R04, R21 and R15 all hold, and R04 has won.
C4_Witness ==
    /\ Classified
    /\ result.rule_id = "R04_PROPERTY_DOWNPAYMENT"
    /\ {19, 24} \subseteq Holding(norm(argDesc), argAmount)

\* C8: transfer neutralisation.  A result of classify_row whose
\* cashflow_statement is TRANSFER has flow_nature TRANSFER, managerial purpose
\* TRANSFER/INTERNAL_TRANSFER and is not baseline eligible; R03 and R13 give
\* such a result for every amount sign.
C8_TransferNeutralised ==
    Classified =>
        /\ result.cashflow_statement = "TRANSFER" =>
              /\ result.flow_nature = "TRANSFER"
              /\ result.managerial_l1 = "TRANSFER"
              /\ result.managerial_l2 = "INTERNAL_TRANSFER"
              /\ result.baseline_eligible = FALSE
        /\ result.rule_id \in {"R03_TRUST_INTERNAL", "R13_INTERNAL_TRANSFER"} =>
              result.cashflow_statement = "TRANSFER"

\* C8 witness: R13 has fired on an inflow.
C8_Witness ==
    /\ Classified
    /\ result.rule_id = "R13_INTERNAL_TRANSFER"
    /\ result.cashflow_statement = "TRANSFER"
    /\ argAmount > 0

---------------------------------------------------------------------------
(* The classifier and the override merger together *)

NextLedger == NextClassify \/ NextOv

SpecLedger == (InitClassify \/ InitOv) /\ [][NextLedger]_vars

---------------------------------------------------------------------------
(* Properties of the override merger *)

Merged == pc = "done" /\ stage = "overrides"

\* a blank identifier cell: missing, empty or whitespace only
BlankIdCell(c) == c = NA \/ strip(c) = <<>>

\* the row k of the sheet, a column the sheet lacks read as empty cells
SheetRow(k) ==
    [ c \in OVERRIDE_REQUIRED_COLS |-> IF c \in DOMAIN xlsx[k] THEN xlsx[k][c] ELSE NA ]

\* the sheet rows that are enabled and carry an identifier
EnabledRows ==
    { k \in DOMAIN xlsx : EnabledFlag(SheetRow(k).Enabled) /\ ~BlankIdCell(SheetRow(k).Txn_ID) }

\* the identifier the ledger row i came with (none: the empty text)
GivenId(i) == IF "Txn_ID" \in DOMAIN tbl[i] THEN strip(tbl[i].Txn_ID.text) ELSE <<>>

\* the enabled sheet rows whose identifier is the Txn_ID of the ledger row i
OverridesOf(i) ==
    { k \in EnabledRows : strip(SheetRow(k).Txn_ID) = GivenId(i) }

ManagerialOf(row) == << row.Managerial_Purpose_L1, row.Managerial_Purpose_L2 >>

\* C5: override transfer short-circuit.  After load_overrides and
\* apply_overrides, a transaction matched by an enabled override that sets
\* Cashflow_Statement to TRANSFER has managerial purpose
\* TRANSFER/INTERNAL_TRANSFER, whatever else the override supplies.
C5_OverrideTransferShortCircuit ==
    Merged =>
        \A i \in DOMAIN merged : \A k \in OverridesOf(i) :
            (_has_value(SheetRow(k).Cashflow_Statement)
                /\ Label(SheetRow(k).Cashflow_Statement) = "TRANSFER")
            => ManagerialOf(merged[i]) = <<"TRANSFER", "INTERNAL_TRANSFER">>

\* the economic-to-managerial lookup as it is specified
SpecifiedLookup(cashflow_stmt, econ_l1, econ_l2) ==
    IF cashflow_stmt = "TRANSFER" THEN <<"TRANSFER", "INTERNAL_TRANSFER">>
    ELSE IF econ_l1 = "DEBT_SERVICE" /\ StartsWith(econ_l2, "CREDIT_CARD_SETTLEMENT")
    THEN <<"LIFESTYLE", "CREDIT_CARD_SPEND_PROXY">>
    ELSE MANAGERIAL_DERIVE_MAP(<<econ_l1, econ_l2>>)

\* C6: managerial re-derivation under override.  When an enabled override
\* supplies both economic-purpose fields and leaves both managerial fields
\* blank, the managerial purpose of the transaction after load_overrides and
\* apply_overrides is the lookup of its new economic pair, with the
\* card-settlement prefix case and the transfer short-circuit.
C6_ManagerialRederivation ==
    Merged =>
        \A i \in DOMAIN merged : \A k \in OverridesOf(i) :
            (/\ _has_value(SheetRow(k).Economic_Purpose_L1)
             /\ _has_value(SheetRow(k).Economic_Purpose_L2)
             /\ ~_has_value(SheetRow(k).Managerial_Purpose_L1)
             /\ ~_has_value(SheetRow(k).Managerial_Purpose_L2))
            => ManagerialOf(merged[i]) =
                  SpecifiedLookup(merged[i].Cashflow_Statement,
                                  merged[i].Economic_Purpose_L1,
                                  merged[i].Economic_Purpose_L2)

\* the analyst supplied Managerial_Purpose_L1 for the ledger row i
ManagerialSupplied(i) ==
    \E k \in OverridesOf(i) : _has_value(SheetRow(k).Managerial_Purpose_L1)

\* C7: income is never managerially lifestyle.  A result of classify_row with
\* economic purpose INCOME has a managerial purpose other than LIFESTYLE, and an
\* inflow with a salary marker or an employer token and no balance marker is
\* INCOME/SALARY and baseline eligible; a ledger row after apply_overrides with
\* economic purpose INCOME, whose managerial purpose the analyst did not
\* supply, has a managerial purpose other than LIFESTYLE.
C7_IncomeNeverLifestyle ==
    /\ Classified =>
          /\ result.econ_l1 = "INCOME" => result.managerial_l1 # "LIFESTYLE"
          /\ (/\ argAmount > 0
              /\ \/ has_any(norm(argDesc), SALARY_PATTERNS)
                 \/ contains_any_token(norm(argDesc), SALARY_EMPLOYERS)
              /\ ~has_any(norm(argDesc), BALANCE_PATTERNS))
             => /\ result.econ_l1 = "INCOME" /\ result.econ_l2 = "SALARY"
                /\ result.managerial_l1 = "INCOME" /\ result.managerial_l2 = "SALARY"
                /\ result.baseline_eligible = TRUE
    /\ Merged =>
          \A i \in DOMAIN merged :
              (merged[i].Economic_Purpose_L1 = "INCOME" /\ ~ManagerialSupplied(i))
              => merged[i].Managerial_Purpose_L1 # "LIFESTYLE"

\* C7 witness: an override has turned an outflow into INCOME/SALARY and left
\* the managerial fields to be derived.
C7_Witness ==
    /\ Merged
    /\ \E i \in DOMAIN merged :
          /\ merged[i].Was_Overridden
          /\ ledger[i].Economic_Purpose_L1 # "INCOME"
          /\ merged[i].Economic_Purpose_L1 = "INCOME"
          /\ merged[i].Economic_Purpose_L2 = "SALARY"
          /\ ~ManagerialSupplied(i)
          /\ merged[i].Managerial_Purpose_L1 = "INCOME"

\* two enabled sheet rows carry the same identifier
SameIdTwice ==
    \E k, l \in EnabledRows : k # l /\ strip(SheetRow(k).Txn_ID) = strip(SheetRow(l).Txn_ID)

\* C9: override duplicate rejection.  When two enabled override rows with a
\* non-blank identifier carry the same Txn_ID, load_overrides raises and
\* classify_df returns no ledger: no override is applied to any transaction.
C9_OverrideDuplicateRejection ==
    (stage = "overrides" /\ pc # "input" /\ SameIdTwice) =>
        /\ pc = "error"
        /\ merged = <<>>
        /\ \A i \in DOMAIN ledger : ~ledger[i].Was_Overridden

\* C9 witness: classify_df has raised on a sheet whose two enabled rows both
\* name a transaction of the ledger.
C9_Witness ==
    /\ stage = "overrides" /\ pc = "error"
    /\ \E i \in DOMAIN tbl : Cardinality(OverridesOf(i)) >= 2
    /\ Len(ledger) = Len(tbl)

\* C10: blank override identifiers are discarded.  The table load_overrides
\* returns holds the enabled rows with a non-blank identifier and no other
\* row, numbered among themselves, and load_overrides raises only when two of
\* those carry the same identifier.
C10_BlankIdentifiersDiscarded ==
    /\ Merged =>
          /\ Len(ov) = Cardinality(EnabledRows)
          /\ \A n \in DOMAIN ov :
                \E k \in EnabledRows :
                    /\ ov[n].Txn_ID = strip(SheetRow(k).Txn_ID)
                    /\ n = Cardinality({ l \in EnabledRows : l <= k })
          /\ \A i \in DOMAIN merged :
                merged[i].Was_Overridden => OverridesOf(i) # {}
    /\ (stage = "overrides" /\ pc = "error") => SameIdTwice

\* the flag values that enable an override row
EnablingFlags == { <<"TRUE">>, <<"1">>, <<"YES">>, <<"Y">> }

DisabledRow(r) ==
    "Enabled" \in DOMAIN r => UpperText(r.Enabled) \notin EnablingFlags

\* the sheet with its disabled rows removed
WithoutDisabled(sheet) ==
    LET Keep(r) == ~DisabledRow(r)
    IN  SelectSeq(sheet, Keep)

\* the run of classify_df is over
Finished == stage = "overrides" /\ pc \in {"done", "error"}

BlankCell(c) ==
    \/ c = NA
    \/ strip(c) = <<>>
    \/ UpperText(strip(c)) \in { <<"(", "BLANK", ")">>, <<"BLANK">> }

\* the fields an override sets from its own cell alone
OwnCellFields ==
    { "Cashflow_Statement", "Economic_Purpose_L1", "Economic_Purpose_L2",
      "Baseline_Eligible" }

\* the fields from which a managerial purpose left blank is derived again
DerivingFields ==
    { "Cashflow_Statement", "Economic_Purpose_L1", "Economic_Purpose_L2" }

\* C12: only non-blank override fields are applied.  For a transaction
\* matched by an enabled override, a value of Cashflow_Statement,
\* Economic_Purpose_L1/L2 or Baseline_Eligible differs after apply_overrides
\* from the value before only if the override's cell for that field is not
\* blank (missing, empty, "(blank)", "blank"); a managerial purpose field
\* differs only if its own cell is not blank or the override supplies a field
\* it is derived from.
C12_OnlyNonBlankFieldsApplied ==
    Merged =>
        \A i \in DOMAIN merged : \A k \in OverridesOf(i) :
            /\ \A f \in OwnCellFields :
                  merged[i][f] # ledger[i][f] => ~BlankCell(SheetRow(k)[f])
            /\ \A f \in { "Managerial_Purpose_L1", "Managerial_Purpose_L2" } :
                  merged[i][f] # ledger[i][f] =>
                      \/ ~BlankCell(SheetRow(k)[f])
                      \/ \E g \in DerivingFields : ~BlankCell(SheetRow(k)[g])

\* C13: unmatched pass-through.  A transaction whose Txn_ID is not the
\* identifier of an enabled override leaves apply_overrides as it entered it,
\* every classification field unchanged, with Was_Overridden false and
\* Override_ID_Applied empty; and what apply_overrides makes of a row is what
\* it makes of that row alone, whatever other rows the ledger holds.
C13_UnmatchedPassThrough ==
    Merged =>
        /\ Len(merged) = Len(ledger)
        /\ \A i \in DOMAIN merged :
              /\ OverridesOf(i) = {} =>
                    /\ merged[i] = ledger[i]
                    /\ merged[i].Was_Overridden = FALSE
                    /\ merged[i].Override_ID_Applied = ""
              /\ merged[i] = apply_overrides(<<ledger[i]>>, ov)[1]

\* C13 witness: one transaction of the ledger was overridden, with new
\* economic purpose, and the other was not.
C13_Witness ==
    /\ Merged
    /\ \E i, j \in DOMAIN merged :
          /\ merged[i].Was_Overridden
          /\ merged[i].Economic_Purpose_L1 # ledger[i].Economic_Purpose_L1
          /\ OverridesOf(j) = {}
          /\ ~merged[j].Was_Overridden

\* the text a ledger cell holds (none in an empty cell)
CellText(c) == IF c = NA THEN <<>> ELSE strip(c)

\* C14: audit stamping.  After apply_overrides, Was_Overridden is true exactly
\* for the transactions whose Txn_ID is the identifier of an enabled override;
\* for those, Override_ID_Applied is the audit id load_overrides gave that
\* override, and a non-blank reason of the override is appended to the
\* Override_Reason the ledger came with: the old text, " | ", the reason, or
\* the reason alone when there was no old text.  A blank reason leaves the
\* Override_Reason as it was.
C14_AuditStamping ==
    Merged =>
        \A i \in DOMAIN merged :
            /\ merged[i].Was_Overridden <=> OverridesOf(i) # {}
            /\ \A k \in OverridesOf(i) :
                  LET old == CellText(ledger[i].Override_Reason)
                      reason == SheetRow(k).Override_Reason
                  IN  /\ \E n \in DOMAIN ov :
                            /\ ov[n].Txn_ID = GivenId(i)
                            /\ merged[i].Override_ID_Applied = ov[n].Override_ID
                      /\ merged[i].Override_Reason =
                            IF BlankCell(reason) THEN ledger[i].Override_Reason
                            ELSE IF old = <<>> THEN strip(reason)
                            ELSE old \o <<WS, "|", WS>> \o strip(reason)

\* the ledger rows that come without identifier
Unidentified == { i \in DOMAIN tbl : GivenId(i) = <<>> }

\* the input holds one of the faults that end classify_df: two
\* indistinguishable rows where identifiers have to be assigned, two rows
\* under one identifier, two enabled overrides under one identifier
FaultyInput ==
    \/ /\ Unidentified # {}
       /\ \A i \in DOMAIN tbl : {"Amount", "Description"} \subseteq DOMAIN tbl[i]
       /\ TrueDups(FillAmount(tbl))
    \/ \E i, j \in DOMAIN tbl : i # j /\ GivenId(i) # <<>> /\ GivenId(i) = GivenId(j)
    \/ SameIdTwice

\* C16: no partial ledger from the classifier stage.  The output directory
\* changes in one step only, the write of classified_transactions_v3.csv that
\* follows a classify_df that returned; the table written is the merged ledger
\* classify_df returned, one row for each input row.  A run on a faulty input
\* ends in the error state, and neither that step nor any later one changes
\* the output directory.
C16_NoPartialLedger ==
    [][ /\ files' # files =>
              /\ pc = "done" /\ pc' = "written" /\ err = ""
              /\ files' = (OUTPUT_CSV :> merged) @@ files
              /\ Len(merged) = Len(tbl)
              /\ \E nan_as_text \in BOOLEAN :
                    LET r == classify_df(tbl, xlsx, nan_as_text)
                    IN  r.ok /\ r.df = merged
        /\ (stage = "overrides" /\ FaultyInput /\ pc = "input") => pc' = "error"
        /\ (pc = "error" \/ pc' = "error") => files' = files ]_vars

\* C16 witness: classify_df has raised on two overrides under one identifier,
\* and the ledger of an earlier run is still in the output directory.
C16_Witness ==
    /\ stage = "overrides" /\ pc = "error"
    /\ SameIdTwice
    /\ files = (OUTPUT_CSV :> <<"ledger of an earlier run">>)

\* C17: parse errors are fatal for identifier canonicalization.  When
\* classify_df is given a ledger in which a transaction without identifier has
\* no Amount (missing or not a number), the run raises: no identifier is
\* computed for it from another amount.
C17_ParseErrorsFatal ==
    (/\ stage = "overrides" /\ pc # "input"
     /\ \E i \in Unidentified : "Amount" \in DOMAIN tbl[i] /\ tbl[i].Amount = NaN)
    => pc = "error"

\* the columns classify_df reads from every ledger
LedgerColumns == { "Amount", "Description" }

\* Schema errors of the classifier's two inputs abort before processing: when the
\* ledger lacks a column classify_df reads, or the override sheet lacks one of
\* its nine required columns, classify_df raises and returns no row.
ClassifierSchemaErrorsAbort ==
    (stage = "overrides" /\ pc # "input") =>
        ((\/ \E i \in DOMAIN tbl : ~(LedgerColumns \subseteq DOMAIN tbl[i])
          \/ \E k \in DOMAIN xlsx : ~(OVERRIDE_REQUIRED_COLS \subseteq DOMAIN xlsx[k]))
         => (pc = "error" /\ merged = <<>>))

---------------------------------------------------------------------------
(* clean_bank_statement.clean_statement_csv on the raw rows of a statement,
   then clean_bank_statement.main: every statement file is cleaned, written
   and reconciled in turn, then the combined table and the reconciliation
   report are written.

   A statement file is its name, the columns of its header and its rows; a
   row has five cells of text, each a sequence of tokens as elsewhere in this
   module.  A word token of a cell is all digits or all letters, and an
   amount has fewer digits than a float can hold exactly. *)

MaxFiles == 2

MaxRawRows == 3

\* --tolerance, default 0.02
Tolerance == 20

EXPECTED_COLS == { "Date", "Description", "Withdrawals", "Deposits", "Balance" }

\* the statement file names of the model: '2024 Jan.csv', '2024 Feb.csv' and
\* '2024_1. Jan24.csv'
JAN_2024 == <<"2024", WS, "Jan", ".", "csv">>
FEB_2024 == <<"2024", WS, "Feb", ".", "csv">>
JAN24 == <<"2024_1", ".", WS, "Jan24", ".", "csv">>

\* the digit runs of the model: token, int(token), len(token)
DigitRuns ==
    { <<"00", 0, 2>>, <<"01", 1, 2>>, <<"02", 2, 2>>, <<"03", 3, 2>>,
      <<"1", 1, 1>>, <<"2", 2, 1>>, <<"3", 3, 1>>, <<"31", 31, 2>>,
      <<"50", 50, 2>>, <<"100", 100, 3>>, <<"120", 120, 3>>, <<"150", 150, 3>>,
      <<"200", 200, 3>>, <<"220", 220, 3>>, <<"250", 250, 3>>,
      <<"2024", 2024, 4>> }

IsDigits(t) == \E d \in DigitRuns : d[1] = t

DigitRun(t) == CHOOSE d \in DigitRuns : d[1] = t

RECURSIVE Pow10(_)
Pow10(n) == IF n = 0 THEN 1 ELSE 10 * Pow10(n - 1)

\* the characters re.sub(r"[^0-9\.\-\(\)]", "", s) leaves, neighbouring digit
\* runs made one
RECURSIVE KeptCharacters(_)
KeptCharacters(s) ==
    IF s = <<>> THEN <<>>
    ELSE LET h == Head(s)
             rest == KeptCharacters(Tail(s))
         IN  IF h \in { ".", "-", "(", ")" }
             THEN << [ sym |-> h, val |-> 0, len |-> 0 ] >> \o rest
             ELSE IF ~IsDigits(h) THEN rest
             ELSE IF rest # <<>> /\ rest[1].sym = "d"
             THEN << [ sym |-> "d",
                       val |-> DigitRun(h)[2] * Pow10(rest[1].len) + rest[1].val,
                       len |-> DigitRun(h)[3] + rest[1].len ] >> \o Tail(rest)
             ELSE << [ sym |-> "d", val |-> DigitRun(h)[2], len |-> DigitRun(h)[3] ] >>
                     \o rest

\* float(s) in thousandths, NaN on ValueError
float(items) ==
    LET negative == items # <<>> /\ items[1].sym = "-"
        body == IF negative THEN Tail(items) ELSE items
        syms == [ i \in DOMAIN body |-> body[i].sym ]
        Fraction(d) == IF d.len <= 3 THEN d.val * Pow10(3 - d.len)
                       ELSE d.val \div Pow10(d.len - 3)
        magnitude ==
            CASE syms = <<"d">> -> body[1].val * 1000
              [] syms = <<"d", ".">> -> body[1].val * 1000
              [] syms = <<"d", ".", "d">> -> body[1].val * 1000 + Fraction(body[3])
              [] syms = <<".", "d">> -> Fraction(body[2])
              [] OTHER -> NaN
    IN  IF magnitude = NaN THEN NaN
        ELSE IF negative THEN -magnitude ELSE magnitude

\* _parse_amount(x): a float, NaN when the cell is empty or does not parse
_parse_amount(x) ==
    LET items == KeptCharacters(strip(x))
        syms == [ i \in DOMAIN items |-> items[i].sym ]
    IN  \* re.fullmatch(r"\((\-?\d+(\.\d+)?)\)", s): s = "-" + m.group(1)
        IF syms \in { <<"(", "d", ")">>, <<"(", "-", "d", ")">>,
                      <<"(", "d", ".", "d", ")">>, <<"(", "-", "d", ".", "d", ")">> }
        THEN float(<< [ sym |-> "-", val |-> 0, len |-> 0 ] >>
                      \o SubSeq(items, 2, Len(items) - 1))
        ELSE float(items)

MONTH_MAP(t) ==
    CASE t = "JAN" -> 1 [] t = "FEB" -> 2 [] t = "MAR" -> 3 [] t = "APR" -> 4
      [] t = "MAY" -> 5 [] t = "JUN" -> 6 [] t = "JUL" -> 7 [] t = "AUG" -> 8
      [] t = "SEP" -> 9 [] t = "OCT" -> 10 [] t = "NOV" -> 11 [] t = "DEC" -> 12
      [] OTHER -> 0

\* _infer_year_month_from_filename(path): the year as its four digits or "",
\* the month as its number or 0
_infer_year_month_from_filename(name) ==
    LET upper == UpperText(name)
        \* re.search(r"(20\d{2})", name): the digits may stand inside a token
        YearIn(t) == CASE t = "2024" -> "2024" [] t = "2024_1" -> "2024" [] OTHER -> ""
        \* \b(JAN|...|DEC)\b: a token that is the abbreviation and nothing else
        \* (a digit and an underscore are word characters)
        IsMonth(t) == MONTH_MAP(t) # 0
        \* \b(JAN|...|DEC)(\d{2})\b
        YyIn(t) == CASE t = "JAN24" -> "2024" [] OTHER -> ""
        HasYear(t) == YearIn(t) # ""
        HasYy(t) == YyIn(t) # ""
        years == SelectSeq(upper, HasYear)
        months == SelectSeq(upper, IsMonth)
        yys == SelectSeq(upper, HasYy)
    IN  [ year |-> IF years # <<>> THEN YearIn(years[1])
                   ELSE IF months # <<>> /\ yys # <<>> THEN YyIn(yys[1])
                   ELSE "",
          month |-> IF months # <<>> THEN MONTH_MAP(months[1]) ELSE 0 ]

\* pd.to_datetime(s, errors="coerce", dayfirst=True) on the text of a cell
to_datetime_dayfirst(s) ==
    CASE s = <<"02", WS, "Jan", WS, "2024">> -> "2024-01-02"
      [] s = <<"03", WS, "Feb", WS, "2024">> -> "2024-02-03"
      [] s = <<"2024", "-", "01", "-", "02">> -> "2024-01-02"
      [] OTHER -> NaT

\* _parse_date_with_year(date_str, year)
_parse_date_with_year(date_str, year) ==
    LET s == strip(date_str)
    IN  IF s = <<>> THEN NaT
        \* re.search(r"\b20\d{2}\b", s)
        ELSE IF \E i \in DOMAIN s : s[i] = "2024" THEN to_datetime_dayfirst(s)
        ELSE IF year # "" THEN to_datetime_dayfirst(s \o <<WS, year>>)
        ELSE to_datetime_dayfirst(s)

\* DateParsed.dt.strftime("%Y-%m")
strftime_ym(date) ==
    CASE date = "2024-01-02" -> <<"2024-01">>
      [] date = "2024-01-03" -> <<"2024-01">>
      [] date = "2024-02-03" -> <<"2024-02">>
      [] OTHER -> Empty

\* f"{year:04d}-{file_month:02d}"
fallback_ym(year, month) ==
    CASE year = "2024" /\ month = 1 -> <<"2024-01">>
      [] year = "2024" /\ month = 2 -> <<"2024-02">>

\* _is_header_row(row) on a row of normalized cells
_is_header_row(row) ==
    LET date == UpperText(row.Date)
        desc == UpperText(row.Description)
        w == UpperText(row.Withdrawals)
        d == UpperText(row.Deposits)
        b == UpperText(row.Balance)
        tokens == { date, desc, w, d, b }
    IN  \/ w = <<"SGD">> /\ d = <<"SGD">> /\ b = <<"SGD">>
        \/ <<"DATE">> \in tokens /\ <<"DESCRIPTION">> \in tokens
        \/ date = <<"DATE">> \/ desc = <<"DESCRIPTION">> \/ b = <<"BALANCE">>
        \/ tokens = { Empty }

\* is_anchor(r) without the first row forced
is_anchor_marked(df, i) ==
    \/ df[i].Date # Empty \/ df[i].Withdrawals # Empty
    \/ df[i].Deposits # Empty \/ df[i].Balance # Empty

\* is_anchor(r), and the first row an anchor in any case
is_anchor(df, i) ==
    \/ df[i].Date # Empty \/ df[i].Withdrawals # Empty
    \/ df[i].Deposits # Empty \/ df[i].Balance # Empty
    \/ i = 1

\* the elements of a set of numbers in increasing order
SortedSeq(S) ==
    [ k \in 1..Cardinality(S) |->
        CHOOSE x \in S : Cardinality({ y \in S : y < x }) = k - 1 ]

\* first_non_empty(series)
first_non_empty(series) ==
    LET NonEmpty(v) == strip(v) # Empty
        full == SelectSeq(series, NonEmpty)
    IN  IF full = <<>> THEN Empty ELSE strip(full[1])

\* " ".join([x for x in (t.strip() for t in s.tolist()) if x])
RECURSIVE join_descriptions(_)
join_descriptions(s) ==
    IF s = <<>> THEN Empty
    ELSE LET x == strip(Head(s))
             rest == join_descriptions(Tail(s))
         IN  IF x = Empty THEN rest
             ELSE IF rest = Empty THEN x
             ELSE x \o <<WS>> \o rest

\* x.fillna(0.0)
fillna0(x) == IF x = NaN THEN 0 ELSE x

\* DepositsNum - WithdrawalsNum, missing when a side is
net_amount_without_fillna(deposits, withdrawals) ==
    IF deposits = NaN \/ withdrawals = NaN THEN NaN ELSE deposits - withdrawals

\* DepositsNum.fillna(0.0) - WithdrawalsNum.fillna(0.0)
net_amount(deposits, withdrawals) == fillna0(deposits) - fillna0(withdrawals)

\* sort_values(["RowOrder"])
sort_by_RowOrder(df) ==
    LET Before(i, j) ==
            \/ df[i].RowOrder < df[j].RowOrder
            \/ df[i].RowOrder = df[j].RowOrder /\ i < j
        Position(i) == 1 + Cardinality({ j \in DOMAIN df : Before(j, i) })
    IN  [ k \in DOMAIN df |-> df[CHOOSE i \in DOMAIN df : Position(i) = k] ]

\* clean_statement_csv(csv_path).  dt_raises: whether the .dt accessor raises
\* on a DateParsed column that holds no date at all, which is then of object
\* dtype
clean_statement_csv(csv, dt_raises) ==
    IF ~(EXPECTED_COLS \subseteq csv.columns)
    THEN Raise("Missing expected columns")
    ELSE
    LET \* df[c] = df[c].map(_normalize_str)
        normalized == [ i \in DOMAIN csv.rows |->
                          [ c \in EXPECTED_COLS |-> strip(csv.rows[i][c]) ] ]
        NotHeader(r) == ~_is_header_row(r)
        df == SelectSeq(normalized, NotHeader)
        \* _grp = _is_anchor.cumsum(): a group is an anchor and the rows up
        \* to the next one
        anchors == SortedSeq({ i \in DOMAIN df : is_anchor(df, i) })
        Members(k) ==
            SubSeq(df, anchors[k],
                   IF k < Len(anchors) THEN anchors[k + 1] - 1 ELSE Len(df))
        Column(g, c) == [ i \in DOMAIN g |-> g[i][c] ]
        ym == _infer_year_month_from_filename(csv.name)
        grouped ==
            [ k \in DOMAIN anchors |->
                LET g == Members(k)
                    date == _parse_date_with_year(first_non_empty(Column(g, "Date")),
                                                  ym.year)
                    w == _parse_amount(first_non_empty(Column(g, "Withdrawals")))
                    d == _parse_amount(first_non_empty(Column(g, "Deposits")))
                    b == _parse_amount(first_non_empty(Column(g, "Balance")))
                IN  [ Date |-> date,
                      YearMonth |->
                          IF date # NaT THEN strftime_ym(date)
                          ELSE IF ym.year # "" /\ ym.month # 0
                          THEN fallback_ym(ym.year, ym.month)
                          ELSE Empty,
                      Description |-> join_descriptions(Column(g, "Description")),
                      Amount |-> net_amount(d, w),
                      Balance |-> b, Withdrawals |-> w, Deposits |-> d,
                      RowsMerged |-> Len(g),
                      SourceFile |-> csv.name,
                      RowOrder |-> anchors[k] - 1,
                      Txn_ID |-> NoId ] ]
        \* "Drop rows that are entirely empty/no-signal"
        Signal(r) ==
            ~(r.Date = NaT /\ r.Description = Empty /\ r.Amount = 0 /\ r.Balance = NaN)
        signal == sort_by_RowOrder(SelectSeq(grouped, Signal))
    IN  IF dt_raises /\ \A k \in DOMAIN grouped : grouped[k].Date = NaT
        THEN Raise("AttributeError: Can only use .dt accessor with datetimelike values")
        ELSE AssignTxnIds(signal)

\* the periods of the model, in sort order
YearMonths == << <<"2024-01">>, <<"2024-02">> >>

\* abs(delta) < tolerance
strictly_within_tolerance(delta, tolerance) == delta < tolerance /\ -delta < tolerance

\* abs(delta) <= tolerance
within_tolerance(delta, tolerance) == delta <= tolerance /\ -delta <= tolerance

\* reconcile(clean_df, tolerance) on the table of one source file: one
\* ReconcileResult for each YearMonth group, in the order of the groups
reconcile(clean_df, tolerance) ==
    LET \* df.dropna(subset=["YearMonth"])
        Dated(r) == r.YearMonth # Empty
        df == SelectSeq(clean_df, Dated)
        \* sort_values(["SourceFile", "YearMonth", "RowOrder"]), then groupby
        Group(ym) == LET In(r) == r.YearMonth = ym
                     IN  sort_by_RowOrder(SelectSeq(df, In))
        Balances(g) == LET Known(r) == r.Balance # NaN IN SelectSeq(g, Known)
        RECURSIVE Sum(_)
        Sum(g) == IF g = <<>> THEN 0 ELSE Head(g).Amount + Sum(Tail(g))
        Result(g) ==
            LET balances == Balances(g)
                has == balances # <<>>
                opening == IF has THEN balances[1].Balance ELSE NaN
                closing == IF has THEN balances[Len(balances)].Balance ELSE NaN
                sum_amount == Sum(g)
                delta == IF has THEN (opening + sum_amount) - closing ELSE NaN
            IN  [ source_file |-> g[1].SourceFile, year_month |-> g[1].YearMonth,
                  opening_balance |-> opening, closing_balance |-> closing,
                  sum_amount |-> sum_amount, delta |-> delta,
                  ok |-> has /\ within_tolerance(delta, tolerance) ]
        RECURSIVE Results(_)
        Results(k) ==
            IF k > Len(YearMonths) THEN <<>>
            ELSE (IF Group(YearMonths[k]) = <<>> THEN <<>>
                  ELSE << Result(Group(YearMonths[k])) >>) \o Results(k + 1)
    IN  Results(1)

\* f"cleaned_{f.stem}.csv"
cleaned_name(name) ==
    CASE name = JAN_2024 -> "cleaned_2024 Jan.csv"
      [] name = FEB_2024 -> "cleaned_2024 Feb.csv"
      [] name = JAN24 -> "cleaned_2024_1. Jan24.csv"

\* pd.concat(all_cleaned, ignore_index=True)
RECURSIVE concat(_)
concat(tables) == IF tables = <<>> THEN <<>> ELSE Head(tables) \o concat(Tail(tables))

\* one row of a statement file
RawRow(date, desc, w, d, b) ==
    [ Date |-> date, Description |-> desc, Withdrawals |-> w, Deposits |-> d,
      Balance |-> b ]

\* the rows of a statement: a balance brought forward and a payment that
\* reconcile, balances that do not, no balance at all, two periods, two
\* indistinguishable rows
StatementRows ==
    LET bf == RawRow(Empty, <<"BALANCE", WS, "B", "/", "F">>, Empty, Empty,
                     <<"150", ".", "00">>)
        pay == RawRow(<<"02", WS, "Jan">>, MISC, <<"50", ".", "00">>, Empty,
                      <<"100", ".", "00">>)
        off == RawRow(<<"02", WS, "Jan">>, MISC, <<"50", ".", "00">>, Empty,
                      <<"200", ".", "00">>)
        blind == RawRow(<<"02", WS, "Jan">>, MISC, <<"50", ".", "00">>, Empty, Empty)
        later == RawRow(<<"03", WS, "Feb", WS, "2024">>, <<"MISC", WS, "FEE">>, Empty,
                        <<"120", ".", "00">>, <<"220", ".", "00">>)
    IN  { <<bf, pay>>, <<bf, off>>, <<blind>>, <<bf, pay, later>>, <<pay, pay>> }

StatementFiles ==
    { [ name |-> n, columns |-> EXPECTED_COLS, rows |-> t ] :
        n \in { JAN_2024, FEB_2024 }, t \in StatementRows }
    \cup { [ name |-> n, columns |-> EXPECTED_COLS \ {"Balance"}, rows |-> <<>> ] :
             n \in { JAN_2024, FEB_2024 } }

\* the rows a statement file is made of: transactions with a date, with a
\* thousands separator, with an amount in parentheses, with both sides;
\* with a balance two cents off; continuation lines; a balance brought forward
\* without a date; dates and amounts that do not parse; a blank line, a repeated header and a currency
\* header
RawRows ==
    { RawRow(<<"02", WS, "Jan">>, MISC, <<"50", ".", "00">>, Empty, <<"100", ".", "00">>),
      RawRow(<<"03", WS, "Feb", WS, "2024">>, <<"SALARY">>, Empty,
             <<"1", ",", "250", ".", "00">>, Empty),
      RawRow(<<"02", WS, "Jan">>, MISC, <<"50", ".", "00">>, <<"120", ".", "00">>,
             <<"220", ".", "00">>),
      RawRow(<<"02", WS, "Jan">>, <<"FEE">>, <<"50", ".", "00">>, Empty,
             <<"100", ".", "02">>),
      RawRow(Empty, <<"FEE">>, Empty, Empty, Empty),
      RawRow(Empty, <<WS, "PAYMENT", WS>>, Empty, Empty, Empty),
      RawRow(Empty, <<"BALANCE", WS, "B", "/", "F">>, Empty, Empty, <<"150", ".", "00">>),
      RawRow(<<"PENDING">>, MISC, <<"(", "50", ".", "00", ")">>, Empty, Empty),
      RawRow(<<"31", WS, "Feb">>, Empty, Empty, Empty, Empty),
      RawRow(<<"02", WS, "Jan">>, MISC, <<"abc">>, <<"1", ".", "2", ".", "3">>, <<"-">>),
      RawRow(Empty, Empty, Empty, Empty, Empty),
      RawRow(<<"Date">>, <<"Description">>, <<"Withdrawals">>, <<"Deposits">>,
             <<"Balance">>),
      RawRow(Empty, Empty, <<"SGD">>, <<"SGD">>, <<"SGD">>) }

RawFiles ==
    { [ name |-> n, columns |-> EXPECTED_COLS, rows |-> t ] :
        n \in { JAN_2024, JAN24 },
        t \in UNION { [1..k -> RawRows] : k \in 0..MaxRawRows } }

InitMain ==
    /\ pc = "input" /\ stage = "main" /\ err = ""
    /\ csv_files \in UNION { [1..n -> StatementFiles] : n \in 1..MaxFiles }
    /\ all_cleaned = <<>> /\ per_file_reports = <<>> /\ files = NoFiles
    /\ tbl = <<>> /\ out = <<>> /\ perm = FALSE
    /\ argDesc = <<>> /\ argAmount = 0 /\ result = <<>>
    /\ ledger = <<>> /\ xlsx = <<>> /\ ov = <<>> /\ merged = <<>>
    /\ NoPipeline

\* one turn of "for f in csv_files"
CleanFile ==
    /\ pc = "input" /\ stage = "main"
    /\ Len(all_cleaned) < Len(csv_files)
    /\ LET f == csv_files[Len(all_cleaned) + 1]
       IN  \E dt_raises \in BOOLEAN :
           \E r \in { clean_statement_csv(f, dt_raises) } :
              IF r.ok
              THEN /\ all_cleaned' = Append(all_cleaned, r.df)
                   /\ files' = (cleaned_name(f.name) :> r.df) @@ files
                   /\ per_file_reports' = per_file_reports \o reconcile(r.df, Tolerance)
                   /\ UNCHANGED <<pc, err>>
              ELSE /\ pc' = "error"
                   /\ err' = r.err
                   /\ UNCHANGED <<all_cleaned, files, per_file_reports>>
    /\ UNCHANGED <<stage, tbl, out, perm, classVars, ovVars, csv_files, plVars>>

\* main after the loop, with the report as a gate
CombineIfReconciled ==
    /\ pc = "input" /\ stage = "main"
    /\ Len(all_cleaned) = Len(csv_files)
    /\ IF \E n \in DOMAIN per_file_reports : ~per_file_reports[n].ok
       THEN pc' = "error" /\ err' = "reconciliation failed" /\ UNCHANGED files
       ELSE /\ files' = ("reconciliation_report.csv" :> per_file_reports)
                           @@ ("combined_cleaned.csv" :> concat(all_cleaned)) @@ files
            /\ pc' = "done" /\ UNCHANGED err
    /\ UNCHANGED <<stage, tbl, out, perm, classVars, ovVars, mainVars, plVars>>

\* main after the loop: the combined table and the reconciliation report
Combine ==
    /\ pc = "input" /\ stage = "main"
    /\ Len(all_cleaned) = Len(csv_files)
    /\ LET combined == concat(all_cleaned)
       IN  IF \E i, j \in DOMAIN combined : i # j /\ combined[i].Txn_ID = combined[j].Txn_ID
           THEN /\ pc' = "error"
                /\ err' = "CRITICAL: Txn_ID collision in combined output"
                /\ UNCHANGED files
           ELSE /\ files' = ("reconciliation_report.csv" :> per_file_reports)
                               @@ ("combined_cleaned.csv" :> combined) @@ files
                /\ pc' = "done"
                /\ UNCHANGED err
    /\ UNCHANGED <<stage, tbl, out, perm, classVars, ovVars, mainVars, plVars>>

NextMain == CleanFile \/ Combine

SpecMain == InitMain /\ [][NextMain]_vars

\* main on one statement file, drawn from the raw rows
InitStatement ==
    /\ pc = "input" /\ stage = "main" /\ err = ""
    /\ csv_files \in { <<f>> : f \in RawFiles }
    /\ all_cleaned = <<>> /\ per_file_reports = <<>> /\ files = NoFiles
    /\ tbl = <<>> /\ out = <<>> /\ perm = FALSE
    /\ argDesc = <<>> /\ argAmount = 0 /\ result = <<>>
    /\ ledger = <<>> /\ xlsx = <<>> /\ ov = <<>> /\ merged = <<>>
    /\ NoPipeline

SpecStatement == InitStatement /\ [][NextMain]_vars

---------------------------------------------------------------------------
(* The stages of the pipeline side by side *)

NextStages == NextOv \/ NextMain

SpecStages == (InitOv \/ InitMain) /\ [][NextStages]_vars

---------------------------------------------------------------------------
(* Properties of the two main programs *)

\* C15: no partial output from the normalizer stage.  When a run of
\* clean_bank_statement.main aborts, on a file that lacks a column or holds
\* indistinguishable rows or on a collision in the combined table, the output
\* directory holds no file of that run.
C15_NoPartialOutput ==
    (stage = "main" /\ pc = "error") => files = NoFiles

\* the (SourceFile, YearMonth) groups of a cleaned table
Groups(df) == { <<df[i].SourceFile, df[i].YearMonth>> : i \in DOMAIN df }

\* the file at position n was cleaned without error
Cleanable(n) == \A dt_raises \in BOOLEAN : clean_statement_csv(csv_files[n], dt_raises).ok

\* two transactions of the combined table carry one identifier
Collision(tables) ==
    \E i, j \in DOMAIN concat(tables) :
        i # j /\ concat(tables)[i].Txn_ID = concat(tables)[j].Txn_ID

\* C19: reconciliation is a diagnostic, not a gate.  reconcile gives one
\* result for each (SourceFile, YearMonth) group of every cleaned table, and
\* the report rows are those results; the cleaned tables, in memory and as
\* written, are the tables clean_statement_csv returned, rows and identifiers
\* untouched; a run ends in error only on a file that cannot be cleaned or on
\* an identifier collision in the combined table, never for what a result
\* says; a run that ends without error has written every cleaned file, the
\* combined file and the report.
C19_ReconciliationIsDiagnostic ==
    stage = "main" =>
        /\ \A n \in DOMAIN all_cleaned :
              LET rs == reconcile(all_cleaned[n], Tolerance)
                  groups == Groups(all_cleaned[n])
              IN  /\ Len(rs) = Cardinality(groups)
                  /\ \A g \in groups :
                        \E m \in DOMAIN rs : <<rs[m].source_file, rs[m].year_month>> = g
                  /\ \E dt_raises \in BOOLEAN :
                        LET r == clean_statement_csv(csv_files[n], dt_raises)
                        IN  r.ok /\ all_cleaned[n] = r.df
                  /\ cleaned_name(csv_files[n].name) \in DOMAIN files
                  /\ \E m \in n..Len(all_cleaned) :
                        /\ csv_files[m].name = csv_files[n].name
                        /\ files[cleaned_name(csv_files[n].name)] = all_cleaned[m]
        /\ Len(per_file_reports) =
              Cardinality({ <<n, g>> : n \in DOMAIN all_cleaned,
                                       g \in UNION { Groups(t) : t \in Range(all_cleaned) } }
                          \cap { x \in (DOMAIN all_cleaned)
                                        \X UNION { Groups(t) : t \in Range(all_cleaned) } :
                                     x[2] \in Groups(all_cleaned[x[1]]) })
        /\ pc = "error" =>
              LET n == Len(all_cleaned) + 1
              IN  IF n <= Len(csv_files) THEN ~Cleanable(n) ELSE Collision(all_cleaned)
        /\ pc = "done" =>
              /\ Len(all_cleaned) = Len(csv_files)
              /\ files["combined_cleaned.csv"] = concat(all_cleaned)
              /\ files["reconciliation_report.csv"] = per_file_reports
        /\ (pc = "input" /\ Len(all_cleaned) = Len(csv_files) /\ ~Collision(all_cleaned))
              => ENABLED Combine

\* C19 witness: the run has written its files although one group is out of
\* tolerance and another has no balance to reconcile.
C19_Witness ==
    /\ stage = "main" /\ pc = "done"
    /\ \E m, n \in DOMAIN per_file_reports :
          /\ ~per_file_reports[m].ok /\ per_file_reports[m].delta # NaN
          /\ ~per_file_reports[n].ok /\ per_file_reports[n].opening_balance = NaN
    /\ {"combined_cleaned.csv", "reconciliation_report.csv"} \subseteq DOMAIN files

\* C18: schema errors abort before processing.  A statement file that lacks
\* one of the five expected columns is never cleaned and ends the run in
\* error; when the classifier's ledger lacks a column classify_df reads, or
\* the override sheet lacks one of its nine required columns, classify_df
\* raises and returns no row.
C18_SchemaErrorsAbortAllInputs ==
    /\ stage = "main" =>
          /\ \A n \in DOMAIN all_cleaned : EXPECTED_COLS \subseteq csv_files[n].columns
          /\ pc = "done" =>
                \A n \in DOMAIN csv_files : EXPECTED_COLS \subseteq csv_files[n].columns
    /\ ClassifierSchemaErrorsAbort

\* C20: the bank rail is independent of the economic category.  Whatever
\* rule classify_row fires, the bank_rail of its result is
\* infer_bank_rail of the upper-cased description.
C20_BankRailIndependent ==
    Classified => result.bank_rail = infer_bank_rail(norm(argDesc))

---------------------------------------------------------------------------
(* run_pipeline.main: the stages as child processes *)

\* the exit codes a child process is given: success and two failures
ExitCodes == { 0, 1, 2 }

\* the exit code position of a child that has not exited yet
Running == -1

STAGE_ORDER == << "clean", "classify", "diagnostics", "equity", "dashboard" >>

COMBINED_CLEANED == "combined_cleaned.csv"

\* os.getenv and Path.exists as main reads them: the two directories are set
\* or not, RUN_DASH is unset, "1" or another text, inputs/loan_balances.csv
\* is there or not
Environments ==
    [ CLEAN_INPUT_DIR : BOOLEAN, CLEAN_OUTPUT_DIR : BOOLEAN,
      RUN_DASH : { "", "1", "0" }, loan_balances : BOOLEAN ]

InitPipeline ==
    /\ pc = "start" /\ stage = "pipeline" /\ err = ""
    /\ env \in Environments /\ started = <<>>
    /\ files \in { NoFiles, COMBINED_CLEANED :> <<"table of an earlier run">> }
    /\ tbl = <<>> /\ out = <<>> /\ perm = FALSE
    /\ argDesc = <<>> /\ argAmount = 0 /\ result = <<>>
    /\ ledger = <<>> /\ xlsx = <<>> /\ ov = <<>> /\ merged = <<>>
    /\ csv_files = <<>> /\ all_cleaned = <<>> /\ per_file_reports = <<>>

pipelineFrame == <<stage, tbl, out, perm, classVars, ovVars, mainVars, env>>

\* _run(cmd) up to the start of the child
Start(name) ==
    /\ started' = Append(started, [ stage |-> name, exit |-> Running ])
    /\ pc' = name

\* an exception leaves main
Abort(msg) ==
    /\ pc' = "aborted"
    /\ err' = msg

\* the position of main after the child of a stage returned 0
AfterStage(name) == IF name = "dashboard" THEN "complete" ELSE name \o "_ok"

\* Stage 1: the two directories, then clean_bank_statement.py
CleanStage ==
    /\ stage = "pipeline" /\ pc = "start"
    /\ IF ~env.CLEAN_INPUT_DIR \/ ~env.CLEAN_OUTPUT_DIR
       THEN Abort("Missing CLEAN_INPUT_DIR / CLEAN_OUTPUT_DIR in code/.env") /\ UNCHANGED started
       ELSE Start("clean") /\ UNCHANGED err
    /\ UNCHANGED <<files, pipelineFrame>>

\* subprocess.check_call returns, or raises CalledProcessError on a code
\* other than 0.  The clean stage leaves the output directory with or without
\* the combined file: the directory is shared with whatever else runs.
ChildExits ==
    /\ stage = "pipeline" /\ pc \in Range(STAGE_ORDER)
    /\ \E code \in ExitCodes :
          /\ started' = [ started EXCEPT ![Len(started)].exit = code ]
          /\ IF code = 0
             THEN pc' = AfterStage(pc) /\ UNCHANGED err
             ELSE Abort("CalledProcessError")
    /\ IF pc = "clean"
       THEN \E present \in BOOLEAN :
               files' = IF present
                        THEN (COMBINED_CLEANED :> <<"table of this run">>) @@ files
                        ELSE [ f \in DOMAIN files \ {COMBINED_CLEANED} |-> files[f] ]
       ELSE UNCHANGED files
    /\ UNCHANGED pipelineFrame

\* the classify stage started although Stage 1 left no combined file
ClassifyStageUnchecked ==
    /\ stage = "pipeline" /\ pc = "clean_ok"
    /\ Start("classify") /\ UNCHANGED err
    /\ UNCHANGED <<files, pipelineFrame>>

\* Stage 2: the combined file must exist, then auto_classify_transactions.py
ClassifyStage ==
    /\ stage = "pipeline" /\ pc = "clean_ok"
    /\ IF COMBINED_CLEANED \notin DOMAIN files
       THEN Abort("FileNotFoundError") /\ UNCHANGED started
       ELSE Start("classify") /\ UNCHANGED err
    /\ UNCHANGED <<files, pipelineFrame>>

\* classification_diagnostics.py
DiagnosticsStage ==
    /\ stage = "pipeline" /\ pc = "classify_ok"
    /\ Start("diagnostics")
    /\ UNCHANGED <<err, files, pipelineFrame>>

\* equity_module.py, or the skip when inputs/loan_balances.csv is missing
EquityStage ==
    /\ stage = "pipeline" /\ pc = "diagnostics_ok"
    /\ IF env.loan_balances
       THEN Start("equity")
       ELSE pc' = "equity_skipped" /\ UNCHANGED started
    /\ UNCHANGED <<err, files, pipelineFrame>>

\* dashboard_app.py when RUN_DASH is "1", then "Pipeline complete."
DashboardStage ==
    /\ stage = "pipeline" /\ pc \in { "equity_ok", "equity_skipped" }
    /\ IF env.RUN_DASH = "1"
       THEN Start("dashboard")
       ELSE pc' = "complete" /\ UNCHANGED started
    /\ UNCHANGED <<err, files, pipelineFrame>>

NextPipeline ==
    CleanStage \/ ChildExits \/ ClassifyStage \/ DiagnosticsStage \/ EquityStage
        \/ DashboardStage

\* main is one synchronous program and goes on whenever it can; the batch
\* stages exit, the dashboard is a server that may never do so
PipelineFairness ==
    /\ WF_vars(CleanStage) /\ WF_vars(ClassifyStage) /\ WF_vars(DiagnosticsStage)
    /\ WF_vars(EquityStage) /\ WF_vars(DashboardStage)
    /\ WF_vars(pc # "dashboard" /\ ChildExits)

SpecPipeline == InitPipeline /\ [][NextPipeline]_vars /\ PipelineFairness

---------------------------------------------------------------------------
(* Properties of run_pipeline *)

\* the position of a stage in the order of the pipeline
StageRank(name) == CHOOSE k \in DOMAIN STAGE_ORDER : STAGE_ORDER[k] = name

StagesStarted == { started[i].stage : i \in DOMAIN started }

\* the stages up to now started in the order of the pipeline, none left out
\* but the optional ones, each after every earlier one returned 0
StartedInOrder ==
    /\ \A i, j \in DOMAIN started :
          i < j => /\ StageRank(started[i].stage) < StageRank(started[j].stage)
                   /\ started[i].exit = 0
    /\ \A i \in DOMAIN started :
          i <= 3 => started[i].stage = STAGE_ORDER[i]

\* the equity stage ran exactly when its input file exists
EquityIffInput ==
    /\ "equity" \in StagesStarted => env.loan_balances
    /\ pc = "equity_skipped" => ~env.loan_balances
    /\ (pc = "complete" \/ "dashboard" \in StagesStarted)
          => ("equity" \in StagesStarted <=> env.loan_balances)

\* a failing equity stage ends the pipeline before the dashboard
EquityFailureAborts ==
    (\E i \in DOMAIN started :
        started[i].stage = "equity" /\ started[i].exit \notin { 0, Running })
    => pc = "aborted" /\ "dashboard" \notin StagesStarted

\* C21: stage sequencing of run_pipeline.  The stages start strictly in the
\* order clean, classify, diagnostics, equity, dashboard, each only after
\* every earlier executed stage exited with code 0, and classify only while
\* combined_cleaned.csv exists; the equity stage runs if and only if
\* inputs/loan_balances.csv exists; its absence is a skip that never aborts:
\* the next step is the dashboard stage when RUN_DASH asks for it and
\* completion otherwise, and the pipeline gets there; a failing equity stage
\* aborts the pipeline before the dashboard stage.
C21_StageSequencing ==
    /\ [](stage = "pipeline" => StartedInOrder /\ EquityIffInput /\ EquityFailureAborts)
    /\ [][ stage = "pipeline" =>
             /\ ("classify" \in StagesStarted' /\ "classify" \notin StagesStarted)
                   => COMBINED_CLEANED \in DOMAIN files
             /\ pc = "equity_skipped"
                   => pc' = IF env.RUN_DASH = "1" THEN "dashboard" ELSE "complete" ]_vars
    /\ (stage = "pipeline" /\ pc = "equity_skipped")
          ~> (pc = "complete" \/ "dashboard" \in StagesStarted)

\* C21 witness: the pipeline is complete although the equity stage was
\* skipped, the three stages before it having returned 0.
C21_Witness ==
    /\ stage = "pipeline" /\ pc = "complete"
    /\ ~env.loan_balances
    /\ Len(started) = 3 /\ \A i \in DOMAIN started : started[i].exit = 0

---------------------------------------------------------------------------
(* equity_module.compute_equity_buildup *)

MaxLoanRows == 3

\* a null cell of the loan balances file
Null == "<null>"

\* loan identifiers and months in ascending text order
LOAN_IDS == << "L001", "L002" >>
AS_OF_MONTHS == << "2024-01", "2024-02", "2024-03" >>

EQUITY_REQUIRED_COLS == { "Loan_ID", "AsOfMonth", "Outstanding_Balance" }

EQUITY_OUTPUT_CSV == "equity_build_up_monthly.csv"

\* the place of a text in an ascending list of texts
TextRank(texts, t) == CHOOSE k \in DOMAIN texts : texts[k] = t

\* str.match(r"^\d{4}-\d{2}$")
IsYearMonth(t) == t \in Range(AS_OF_MONTHS)

\* sort_values(["Loan_ID", "AsOfMonth"]): row i comes before row j
LoanMonthBefore(rows, i, j) ==
    LET li == TextRank(LOAN_IDS, rows[i].Loan_ID)
        lj == TextRank(LOAN_IDS, rows[j].Loan_ID)
        mi == TextRank(AS_OF_MONTHS, rows[i].AsOfMonth)
        mj == TextRank(AS_OF_MONTHS, rows[j].AsOfMonth)
    IN  \/ li < lj
        \/ li = lj /\ mi < mj
        \/ li = lj /\ mi = mj /\ i < j

\* sort_values(...).reset_index(drop=True); rows of one key keep their order
sort_values(rows) ==
    LET place(i) == 1 + Cardinality({ j \in DOMAIN rows : LoanMonthBefore(rows, j, i) })
    IN  [ k \in DOMAIN rows |-> rows[CHOOSE i \in DOMAIN rows : place(i) = k] ]

\* shift(1) over the whole table: the balance of the row above, whatever its loan
shift_ungrouped(df, i) ==
    IF i = 1 THEN NaN ELSE df[i - 1].Outstanding_Balance

\* groupby("Loan_ID")["Outstanding_Balance"].shift(1): the balance of the
\* nearest row above of the same loan, NaN when there is none
groupby_shift(df, i) ==
    LET above == { j \in 1..(i - 1) : df[j].Loan_ID = df[i].Loan_ID }
    IN  IF above = {} THEN NaN
        ELSE df[CHOOSE j \in above : \A k \in above : k <= j].Outstanding_Balance

\* .apply(lambda x: max(0, x) if pd.notna(x) else 0) on a - b
max0_diff(a, b) ==
    IF a = NaN \/ b = NaN THEN 0 ELSE IF a - b > 0 THEN a - b ELSE 0

compute_equity_buildup(csv) ==
    LET rows == csv.rows
    IN  IF ~(EQUITY_REQUIRED_COLS \subseteq csv.columns)
        THEN Raise("Missing required columns")
        ELSE IF rows = <<>>
        THEN Raise("Loan balances CSV is empty")
        ELSE IF \E i \in DOMAIN rows : rows[i].Loan_ID = Null
        THEN Raise("Loan_ID cannot be null")
        ELSE IF \E i \in DOMAIN rows : rows[i].AsOfMonth = Null
        THEN Raise("AsOfMonth cannot be null")
        ELSE IF \E i \in DOMAIN rows : ~IsYearMonth(rows[i].AsOfMonth)
        THEN Raise("Invalid AsOfMonth format (expected YYYY-MM)")
        ELSE IF \E i \in DOMAIN rows : rows[i].Outstanding_Balance = NaN
        THEN Raise("Outstanding_Balance contains non-numeric values")
        ELSE LET df == sort_values(rows)
             IN  Ok([ i \in DOMAIN df |->
                       LET previous == groupby_shift(df, i)
                       IN  [ Loan_ID |-> df[i].Loan_ID,
                             Property_ID |-> "",
                             AsOfMonth |-> df[i].AsOfMonth,
                             Outstanding_Balance |-> df[i].Outstanding_Balance,
                             Previous_Balance |-> IF previous = NaN THEN 0 ELSE previous,
                             Principal_Paid |->
                                 max0_diff(previous, df[i].Outstanding_Balance),
                             Balance_Increase |->
                                 max0_diff(df[i].Outstanding_Balance, previous),
                             Loan_Event |-> "" ] ])

LoanRow(loan, month, balance) ==
    [ Loan_ID |-> loan, AsOfMonth |-> month, Outstanding_Balance |-> balance ]

\* records the module accepts
LoanRows ==
    { LoanRow(l, m, b) : l \in Range(LOAN_IDS), m \in Range(AS_OF_MONTHS),
                         b \in { 96000, 98000, 150000 } }

\* records it rejects: a null identifier, a null or malformed month, a
\* balance that is no number
InvalidLoanRows ==
    { LoanRow(Null, "2024-01", 98000), LoanRow("L001", Null, 98000),
      LoanRow("L001", "2024-1", 98000), LoanRow("L001", "2024-01", NaN) }

LoanFiles ==
    { [ columns |-> EQUITY_REQUIRED_COLS, rows |-> t ] :
        t \in UNION { [1..n -> LoanRows] : n \in 0..MaxLoanRows } }
    \cup { [ columns |-> EQUITY_REQUIRED_COLS, rows |-> <<good, bad>> ] :
             good \in { LoanRow("L002", "2024-02", 96000) }, bad \in InvalidLoanRows }
    \cup { [ columns |-> EQUITY_REQUIRED_COLS \ {c}, rows |-> <<>> ] :
             c \in EQUITY_REQUIRED_COLS }

InitEquity ==
    /\ pc = "input" /\ stage = "equity" /\ err = ""
    /\ tbl \in LoanFiles /\ out = <<>> /\ perm = FALSE
    /\ files = NoFiles
    /\ argDesc = <<>> /\ argAmount = 0 /\ result = <<>>
    /\ ledger = <<>> /\ xlsx = <<>> /\ ov = <<>> /\ merged = <<>>
    /\ csv_files = <<>> /\ all_cleaned = <<>> /\ per_file_reports = <<>>
    /\ NoPipeline

\* compute_equity_buildup(input_csv, output_csv), the written file included
ComputeEquityBuildup ==
    /\ pc = "input" /\ stage = "equity"
    /\ \E r \in { compute_equity_buildup(tbl) } :
          /\ Finish(r)
          /\ files' = IF r.ok THEN (EQUITY_OUTPUT_CSV :> r.df) @@ files ELSE files
    /\ UNCHANGED <<stage, tbl, perm, classVars, ovVars, mainVars, plVars>>

NextEquity == ComputeEquityBuildup

SpecEquity == InitEquity /\ [][NextEquity]_vars

---------------------------------------------------------------------------
(* Properties of the equity build-up *)

\* the records of one loan, in the order of the table
OfLoan(rows, loan) == SelectSeq(rows, LAMBDA r : r.Loan_ID = loan)

\* the table with every reading of one (loan, month, balance) counted
LoanBag(rows) ==
    [ r \in { LoanRow(rows[i].Loan_ID, rows[i].AsOfMonth, rows[i].Outstanding_Balance) :
                i \in DOMAIN rows }
        |-> Cardinality({ i \in DOMAIN rows :
                            LoanRow(rows[i].Loan_ID, rows[i].AsOfMonth,
                                    rows[i].Outstanding_Balance) = r }) ]

\* C22: equity build-up arithmetic.  The result holds the input records in
\* Loan_ID, AsOfMonth order whatever the input row order; for every record
\* after its loan's first, Previous_Balance is the balance of that loan's
\* preceding record, Principal_Paid = max(0, Previous_Balance -
\* Outstanding_Balance) and Balance_Increase = max(0, Outstanding_Balance -
\* Previous_Balance), so at most one of the two is non-zero and their
\* difference is Previous_Balance - Outstanding_Balance; for each loan's first
\* record all three are 0; the records of a loan are what the module computes
\* from that loan's records alone.
C22_EquityArithmetic ==
    (stage = "equity" /\ pc = "done") =>
        /\ LoanBag(out) = LoanBag(tbl.rows)
        /\ \A i, j \in DOMAIN out :
              i < j => \/ TextRank(LOAN_IDS, out[i].Loan_ID) < TextRank(LOAN_IDS, out[j].Loan_ID)
                       \/ /\ out[i].Loan_ID = out[j].Loan_ID
                          /\ TextRank(AS_OF_MONTHS, out[i].AsOfMonth)
                                <= TextRank(AS_OF_MONTHS, out[j].AsOfMonth)
        /\ \A i \in DOMAIN out :
              IF i = 1 \/ out[i - 1].Loan_ID # out[i].Loan_ID
              THEN /\ out[i].Previous_Balance = 0
                   /\ out[i].Principal_Paid = 0
                   /\ out[i].Balance_Increase = 0
              ELSE LET prev == out[i - 1].Outstanding_Balance
                       cur == out[i].Outstanding_Balance
                   IN  /\ out[i].Previous_Balance = prev
                       /\ out[i].Principal_Paid = (IF prev - cur > 0 THEN prev - cur ELSE 0)
                       /\ out[i].Balance_Increase = (IF cur - prev > 0 THEN cur - prev ELSE 0)
                       /\ out[i].Principal_Paid = 0 \/ out[i].Balance_Increase = 0
                       /\ out[i].Principal_Paid - out[i].Balance_Increase = prev - cur
        /\ \A loan \in Range(LOAN_IDS) :
              OfLoan(tbl.rows, loan) # <<>> =>
                  OfLoan(out, loan)
                      = compute_equity_buildup([ tbl EXCEPT !.rows = OfLoan(tbl.rows, loan) ]).df
        /\ \A i \in 1..(Len(tbl.rows) - 1) :
              ( tbl.rows[i].Loan_ID # tbl.rows[i + 1].Loan_ID
                \/ tbl.rows[i].AsOfMonth # tbl.rows[i + 1].AsOfMonth )
              => compute_equity_buildup([ tbl EXCEPT !.rows = Swap(tbl.rows, i) ]).df = out

\* C22 witness: the two records of one loan are given latest first with a
\* record of another loan between them, and the later one shows a payment.
C22_Witness ==
    /\ stage = "equity" /\ pc = "done"
    /\ Len(tbl.rows) = 3
    /\ tbl.rows[1].Loan_ID = "L001" /\ tbl.rows[2].Loan_ID = "L002"
    /\ tbl.rows[3].Loan_ID = "L001"
    /\ TextRank(AS_OF_MONTHS, tbl.rows[3].AsOfMonth)
          < TextRank(AS_OF_MONTHS, tbl.rows[1].AsOfMonth)
    /\ out[2].Principal_Paid > 0 /\ out[2].Balance_Increase = 0
    /\ out[3].Loan_ID = "L002" /\ out[3].Previous_Balance = 0

---------------------------------------------------------------------------
(* Further properties of the Identity Assigner *)

\* the rows the run generated an identifier for
Generated == { i \in DOMAIN tbl : stage = "clean" \/ IsBlankId(tbl[i].Txn_ID) }

\* the rows of the table in the base-key group of row i
GroupOf(df, i) == { j \in DOMAIN df : base_key(df[j]) = base_key(df[i]) }

\* the tie-breaker columns in the order of the sort
TIE_BREAKERS == << "Balance", "Withdrawals", "Deposits", "Amount" >>

\* row a stands before row b when the group is ordered ascending by balance,
\* withdrawal, deposit, amount and fingerprint, missing values last: the
\* first column on which they differ decides
OrderedBefore(a, b) ==
    LET differing == { c \in DOMAIN TIE_BREAKERS : a[TIE_BREAKERS[c]] # b[TIE_BREAKERS[c]] }
    IN  IF differing = {}
        THEN Sha1Less(_mk_row_fingerprint(a), _mk_row_fingerprint(b))
        ELSE LET c == TIE_BREAKERS[CHOOSE x \in differing : \A y \in differing : x <= y]
             IN  b[c] = NaN \/ (a[c] # NaN /\ a[c] < b[c])

\* C23: occurrence index.  In a table that passed the duplicate hard stop,
\* the occurrence indices of each base-key group of n rows are exactly 1..n,
\* each once, and a row's index is its 1-based rank when the group is ordered
\* ascending by (balance, withdrawal, deposit, amount, fingerprint) with
\* missing values last; a generated identifier is the hash of the base key and
\* that index, and holds nothing of the fingerprint.
C23_OccurrenceIndex ==
    (stage \in {"clean", "classify"} /\ pc = "done" /\ Generated # {}) =>
        LET occ == _generate_occurrence_indices(tbl)
        IN  \A i \in DOMAIN tbl :
               /\ { occ[j] : j \in GroupOf(tbl, i) } = 1..Cardinality(GroupOf(tbl, i))
               /\ \A j \in GroupOf(tbl, i) : j # i => occ[j] # occ[i]
               /\ occ[i] = 1 + Cardinality({ j \in GroupOf(tbl, i) :
                                               OrderedBefore(tbl[j], tbl[i]) })
               /\ i \in Generated =>
                     /\ out[i].Txn_ID.text = <<"sha1">>
                     /\ out[i].Txn_ID.key = base_key(tbl[i]) \o <<occ[i]>>

\* C23 witness: three rows of one base-key group stand in the table in the
\* reverse of their sorted order, the one without a balance first.
C23_Witness ==
    /\ stage = "clean" /\ pc = "done" /\ Len(tbl) = 3
    /\ \A i \in DOMAIN tbl : GroupOf(tbl, i) = DOMAIN tbl
    /\ tbl[1].Balance = NaN
    /\ out[1].Txn_ID.key[6] = 3 /\ out[2].Txn_ID.key[6] = 2 /\ out[3].Txn_ID.key[6] = 1

\* C24: identifier immutability in ensure_txn_id.  Every row that enters with
\* a non-blank Txn_ID leaves with exactly that Txn_ID, identifiers are
\* generated only for the rows whose Txn_ID is missing or blank, and no other
\* column of any row is changed.
C24_IdentifierImmutability ==
    (stage = "classify" /\ pc = "done") =>
        /\ DOMAIN out = DOMAIN tbl
        /\ \A i \in DOMAIN tbl :
              /\ ~IsBlankId(tbl[i].Txn_ID) => out[i].Txn_ID = tbl[i].Txn_ID
              /\ out[i].Txn_ID # tbl[i].Txn_ID => IsBlankId(tbl[i].Txn_ID)
              /\ \A c \in DOMAIN tbl[i] \ {"Txn_ID"} : out[i][c] = tbl[i][c]

\* C24 witness: ensure_txn_id generated an identifier for one row of a
\* base-key group and left the other row of the group with the one it had.
C24_Witness ==
    /\ stage = "classify" /\ pc = "done"
    /\ \E i, j \in DOMAIN tbl :
          /\ i # j /\ j \in GroupOf(tbl, i)
          /\ tbl[i].Txn_ID.text = <<"PRE1">> /\ out[i].Txn_ID.text = <<"PRE1">>
          /\ IsBlankId(tbl[j].Txn_ID) /\ out[j].Txn_ID.key # <<>>

\* the table with row k taken out
Without(df, k) ==
    [ i \in 1..(Len(df) - 1) |-> IF i < k THEN df[i] ELSE df[i + 1] ]

\* C30: identifier stability under unrelated additions.  Between a dataset
\* and the same dataset with one row more (or less), every other row whose
\* base key differs from that of the added (removed) row has the same
\* occurrence index and the same Txn_ID in both.
C30_StableUnderUnrelatedAdditions ==
    (stage \in {"clean", "classify"} /\ pc = "done") =>
        \A k \in DOMAIN tbl :
            LET smaller == Without(tbl, k)
                r == RunAssigner(stage, smaller)
            IN  r.ok =>
                  \A i \in DOMAIN smaller :
                     LET with == IF i < k THEN i ELSE i + 1
                     IN  base_key(tbl[with]) # base_key(tbl[k]) =>
                            /\ r.df[i].Txn_ID = out[with].Txn_ID
                            /\ _generate_occurrence_indices(smaller)[i]
                                  = _generate_occurrence_indices(tbl)[with]

\* C30 witness: the table holds a base-key group of two rows and, between
\* them, a row of another base key; the second row of the group has the
\* occurrence index 2.
C30_Witness ==
    /\ stage = "clean" /\ pc = "done" /\ Len(tbl) = 3
    /\ base_key(tbl[1]) = base_key(tbl[3])
    /\ base_key(tbl[2]) # base_key(tbl[1])
    /\ out[3].Txn_ID.key[6] = 2 /\ out[2].Txn_ID.key[6] = 1

---------------------------------------------------------------------------
(* The classifier against the lookup table *)

\* the fields of an override row that classify a transaction
CLASSIFICATION_FIELDS ==
    { "Cashflow_Statement", "Economic_Purpose_L1", "Economic_Purpose_L2",
      "Managerial_Purpose_L1", "Managerial_Purpose_L2", "Baseline_Eligible" }

\* C29: classifier and lookup table agree.  For every input of classify_row
\* the managerial pair of the result is the derivation apply_overrides uses on
\* the result's economic pair and cashflow statement: TRANSFER /
\* INTERNAL_TRANSFER for a TRANSFER statement, LIFESTYLE /
\* CREDIT_CARD_SPEND_PROXY for DEBT_SERVICE with a CREDIT_CARD_SETTLEMENT
\* prefix, else the MANAGERIAL_DERIVE_MAP entry, else the economic pair; and a
\* matched override that supplies no classification field leaves the
\* managerial purpose of the classified row as classify_row gave it.
C29_ClassifierAgreesWithLookup ==
    /\ Classified =>
          <<result.managerial_l1, result.managerial_l2>>
              = SpecifiedLookup(result.cashflow_statement, result.econ_l1, result.econ_l2)
    /\ Merged =>
          \A i \in DOMAIN merged : \A k \in OverridesOf(i) :
              (\A c \in CLASSIFICATION_FIELDS : ~_has_value(SheetRow(k)[c]))
                  => /\ merged[i].Was_Overridden
                     /\ ManagerialOf(merged[i]) = ManagerialOf(ledger[i])

\* C29 witness: an override that carries a reason and no classification
\* field was applied to a card settlement, whose managerial pair is not its
\* economic pair.
C29_Witness ==
    /\ Merged
    /\ \E i \in DOMAIN merged : \E k \in OverridesOf(i) :
          /\ \A c \in CLASSIFICATION_FIELDS : ~_has_value(SheetRow(k)[c])
          /\ _has_value(SheetRow(k).Override_Reason)
          /\ merged[i].Was_Overridden
          /\ merged[i].Economic_Purpose_L1 = "DEBT_SERVICE"
          /\ ManagerialOf(merged[i]) = <<"LIFESTYLE", "CREDIT_CARD_SPEND_PROXY">>

---------------------------------------------------------------------------
(* Properties of clean_statement_csv on the raw rows, checked on a run of
   main over one statement file *)

\* the rows of a statement file that are neither header nor blank, their
\* cells stripped
Kept(csv) ==
    LET Stripped(r) == [ c \in EXPECTED_COLS |-> strip(r[c]) ]
        Transaction(r) == ~_is_header_row(Stripped(r))
        rows == SelectSeq(csv.rows, Transaction)
    IN  [ i \in DOMAIN rows |-> Stripped(rows[i]) ]

\* the row carries a date or a withdrawal, deposit or balance
Marked(r) ==
    r.Date # Empty \/ r.Withdrawals # Empty \/ r.Deposits # Empty \/ r.Balance # Empty

\* row i of the kept rows starts a transaction
Starts(df, i) == i = 1 \/ Marked(df[i])

\* the nearest row at or before row i that starts a transaction
AnchorOf(df, i) ==
    CHOOSE a \in 1..i : Starts(df, a) /\ \A k \in (a + 1)..i : ~Starts(df, k)

\* the texts of a sequence joined by single blanks
RECURSIVE SpaceJoined(_)
SpaceJoined(texts) ==
    IF texts = <<>> THEN Empty
    ELSE IF Len(texts) = 1 THEN texts[1]
    ELSE texts[1] \o <<WS>> \o SpaceJoined(Tail(texts))

\* the non-empty description texts of the rows merged into anchor a, in file
\* order
TextsOf(df, a) ==
    LET Own(i) == AnchorOf(df, i) = a /\ df[i].Description # Empty
        rows == SelectSeq([ i \in DOMAIN df |-> i ], Own)
    IN  [ k \in DOMAIN rows |-> df[rows[k]].Description ]

\* one statement file was cleaned without error
CleanedOne == stage = "main" /\ Len(csv_files) = 1 /\ Len(all_cleaned) = 1

\* C25: anchor/continuation grouping.  After the header and blank rows are
\* removed, every output transaction stands for one row that carries a date,
\* withdrawal, deposit or balance, or for the first row; its description is
\* the non-empty description texts of that row and of the rows up to the next
\* such row, joined by single blanks in file order, and RowsMerged counts those
\* rows; every row with a description text is merged into the transaction of
\* the nearest such row at or before it, so no text is lost or moved; and the
\* output transactions are in strictly increasing RowOrder.
C25_AnchorContinuationGrouping ==
    CleanedOne =>
        LET df == Kept(csv_files[1])
            txns == all_cleaned[1]
        IN  /\ \A n \in DOMAIN txns :
                  LET a == txns[n].RowOrder + 1
                  IN  /\ a \in DOMAIN df /\ Starts(df, a)
                      /\ txns[n].Description = SpaceJoined(TextsOf(df, a))
                      /\ txns[n].RowsMerged =
                            Cardinality({ i \in DOMAIN df : AnchorOf(df, i) = a })
            /\ \A i \in DOMAIN df :
                  df[i].Description # Empty =>
                      \E n \in DOMAIN txns : txns[n].RowOrder + 1 = AnchorOf(df, i)
            /\ \A m, n \in DOMAIN txns :
                  m < n => txns[m].RowOrder < txns[n].RowOrder

\* C25 witness: a file whose first kept row has no marker was cleaned after a
\* blank or header row was removed, and its transaction merges the
\* description texts of two rows.
C25_Witness ==
    /\ CleanedOne
    /\ LET df == Kept(csv_files[1])
           txns == all_cleaned[1]
       IN  /\ Len(df) < Len(csv_files[1].rows)
           /\ df # <<>> /\ ~Marked(df[1])
           /\ Len(txns) = 1
           /\ txns[1].RowsMerged = 2
           /\ txns[1].Description = <<"FEE", WS, "PAYMENT">>

\* what the text of an amount cell of the model denotes, in thousandths; NaN
\* when it denotes no number
DenotedAmount(cell) ==
    CASE cell = <<"50", ".", "00">> -> 50000
      [] cell = <<"100", ".", "00">> -> 100000
      [] cell = <<"100", ".", "02">> -> 100020
      [] cell = <<"120", ".", "00">> -> 120000
      [] cell = <<"150", ".", "00">> -> 150000
      [] cell = <<"220", ".", "00">> -> 220000
      [] cell = <<"1", ",", "250", ".", "00">> -> 1250000
      [] cell = <<"(", "50", ".", "00", ")">> -> -50000
      [] OTHER -> NaN

\* a side of a transaction, a missing one counting as zero
SideOrZero(x) == IF x = NaN THEN 0 ELSE x

\* C26: net amount derivation.  Every transaction clean_statement_csv
\* produces has the withdrawal, deposit and balance its anchor row's cells
\* denote, each missing when its cell is empty or denotes no number and the
\* others unaffected; its Amount is deposit minus withdrawal with a missing
\* side counted as zero, is never missing, and is 0 when both sides are
\* missing; and a file is never aborted for an amount: it aborts only for a
\* transaction without YearMonth in a file whose name gives no month, for
\* indistinguishable transactions, or for a date column without any date.
C26_NetAmountDerivation ==
    (stage = "main" /\ Len(csv_files) = 1) =>
        /\ \A n \in DOMAIN all_cleaned : \A i \in DOMAIN all_cleaned[n] :
              LET t == all_cleaned[n][i]
                  anchor == Kept(csv_files[n])[t.RowOrder + 1]
              IN  /\ t.Withdrawals = DenotedAmount(anchor.Withdrawals)
                  /\ t.Deposits = DenotedAmount(anchor.Deposits)
                  /\ t.Balance = DenotedAmount(anchor.Balance)
                  /\ t.Amount # NaN
                  /\ t.Amount = SideOrZero(t.Deposits) - SideOrZero(t.Withdrawals)
                  /\ (t.Deposits = NaN /\ t.Withdrawals = NaN) => t.Amount = 0
        /\ pc = "error" =>
              \/ /\ err = "ValueError: Missing field for Txn_ID"
                 /\ _infer_year_month_from_filename(csv_files[1].name).month = 0
              \/ err = "FATAL: Indistinguishable duplicate transactions detected"
              \/ /\ err = "AttributeError: Can only use .dt accessor with datetimelike values"
                 /\ \A i \in DOMAIN Kept(csv_files[1]) :
                       _parse_date_with_year(Kept(csv_files[1])[i].Date, "2024") = NaT

\* C26 witness: a cleaned file holds a transaction whose withdrawal, deposit
\* and balance cells are text that denotes no number, with Amount 0, after a
\* deposit of 1,250.00 with no withdrawal.
C26_Witness ==
    /\ CleanedOne
    /\ Len(all_cleaned[1]) = 2
    /\ all_cleaned[1][1].Amount = 1250000 /\ all_cleaned[1][1].Withdrawals = NaN
    /\ Kept(csv_files[1])[2].Withdrawals = <<"abc">>
    /\ all_cleaned[1][2].Amount = 0
    /\ all_cleaned[1][2].Withdrawals = NaN /\ all_cleaned[1][2].Balance = NaN

\* the year and month the name of a statement file of the model encodes
EncodedYearMonth(name) ==
    CASE name = JAN_2024 -> <<"2024-01">>
      [] name = FEB_2024 -> <<"2024-02">>
      [] name = JAN24 -> <<"2024-01">>

\* the rows that start a transaction and whose date text is absent or does
\* not parse
UndatedAnchors(csv) ==
    { i \in DOMAIN Kept(csv) :
        /\ Starts(Kept(csv), i)
        /\ _parse_date_with_year(Kept(csv)[i].Date, "2024") = NaT }

\* C27: unparsable dates do not lose rows.  Every row that starts a
\* transaction and whose date text is absent or does not parse yields a
\* transaction in the output of clean_statement_csv, with a missing Date and
\* the YearMonth the file name encodes; and clean_statement_csv does not abort
\* because of such a row: when it aborts on a file that holds one, it is for
\* indistinguishable transactions.
C27_UnparsableDatesKeepRows ==
    (stage = "main" /\ Len(csv_files) = 1) =>
        /\ Len(all_cleaned) = 1 =>
              \A i \in UndatedAnchors(csv_files[1]) :
                  \E n \in DOMAIN all_cleaned[1] :
                      /\ all_cleaned[1][n].RowOrder = i - 1
                      /\ all_cleaned[1][n].Date = NaT
                      /\ all_cleaned[1][n].YearMonth =
                            EncodedYearMonth(csv_files[1].name)
        /\ (pc = "error" /\ UndatedAnchors(csv_files[1]) # {}) =>
              err = "FATAL: Indistinguishable duplicate transactions detected"

\* the sum of the Amounts of the rows of df at the positions in S
RECURSIVE AmountSum(_, _)
AmountSum(df, S) ==
    IF S = {} THEN 0
    ELSE LET i == CHOOSE x \in S : TRUE
         IN  df[i].Amount + AmountSum(df, S \ {i})

\* C28: reconciliation result.  The report of a cleaned file has one result
\* for each (SourceFile, YearMonth) group of its transactions; the opening
\* and closing balance are the Balance of the transaction of lowest and of
\* highest RowOrder among those of the group that have one, sum_amount is the
\* sum of the Amounts of the group, delta is opening + sum_amount - closing,
\* and ok holds exactly when both balances exist and delta is within the
\* tolerance either way; a group without any balance has no opening, closing
\* or delta and is not ok.
C28_ReconciliationResult ==
    CleanedOne =>
        LET df == all_cleaned[1]
        IN  /\ Len(per_file_reports) = Cardinality(Groups(df))
            /\ \A m \in DOMAIN per_file_reports :
                  LET r == per_file_reports[m]
                      G == { i \in DOMAIN df :
                               <<df[i].SourceFile, df[i].YearMonth>>
                                   = <<r.source_file, r.year_month>> }
                      B == { i \in G : df[i].Balance # NaN }
                      first == CHOOSE i \in B :
                                  \A j \in B : df[i].RowOrder <= df[j].RowOrder
                      last == CHOOSE i \in B :
                                  \A j \in B : df[j].RowOrder <= df[i].RowOrder
                      delta == (df[first].Balance + AmountSum(df, G)) - df[last].Balance
                  IN  /\ G # {}
                      /\ r.sum_amount = AmountSum(df, G)
                      /\ \A k \in DOMAIN per_file_reports :
                            per_file_reports[k].year_month = r.year_month => k = m
                      /\ IF B = {}
                         THEN /\ r.opening_balance = NaN /\ r.closing_balance = NaN
                              /\ r.delta = NaN /\ ~r.ok
                         ELSE /\ r.opening_balance = df[first].Balance
                              /\ r.closing_balance = df[last].Balance
                              /\ r.delta = delta
                              /\ r.ok <=> (delta <= Tolerance /\ delta >= -Tolerance)

\* C28 witness: the report of a cleaned file has a group that opens at
\* 150.00, closes at 100.02 after a withdrawal of 50.00 and is ok with a
\* delta of two cents, and a group without any balance that is not ok.
C28_Witness ==
    /\ CleanedOne
    /\ Len(per_file_reports) = 2
    /\ per_file_reports[1].opening_balance = 150000
    /\ per_file_reports[1].closing_balance = 100020
    /\ per_file_reports[1].sum_amount = -50000
    /\ per_file_reports[1].delta = -20 /\ per_file_reports[1].ok
    /\ per_file_reports[2].delta = NaN /\ ~per_file_reports[2].ok
    /\ per_file_reports[2].sum_amount = 1250000

====
